---------------------------- MODULE Spec2Model ----------------------------
(***************************************************************************)
(* A model of SublimeLogMagic's heuristic lexical engine (src/utils.py,    *)
(* src/core.py).  Texts are TLA+ strings; a character is a string of       *)
(* length one.  Offsets are 0-based, as in the source.  The texts drawn    *)
(* by the specifications hold no newline character.                        *)
(***************************************************************************)
EXTENDS Integers, Sequences, FiniteSets, TLC

VARIABLES
    input,                  \* the text handed to the operation
    alt_identifier,         \* create_log_statement's fallback identifier
    take_inner,             \* create_log_statement's bias flag
    flowtype_enabled,       \* the flow-type flag
    max_identifier_length,  \* the setting read by shorten
    pc,                     \* "ready", or the operation that has run
    result,                 \* what the operation returned
    loop,                   \* the locals of a scan loop run step by step
    session                 \* the module tables and the calls made so far

vars == <<input, alt_identifier, take_inner, flowtype_enabled,
          max_identifier_length, pc, result, loop, session>>

-----------------------------------------------------------------------------
(* Python's str and list primitives.                                       *)

Min(a, b) == IF a < b THEN a ELSE b

Max(a, b) == IF a > b THEN a ELSE b

\* s[i]; "" outside the text, where the source never reads without a guard
\* (its unguarded reads are modelled where they are made, as IndexError)
At(s, i) == IF 0 <= i /\ i < Len(s) THEN SubSeq(s, i + 1, i + 1) ELSE ""

\* an index of a slice, as Python normalises it
SliceIndex(s, k) == IF k < 0 THEN Max(k + Len(s), 0) ELSE Min(k, Len(s))

\* s[a:b]
Slice(s, a, b) == SubSeq(s, SliceIndex(s, a) + 1, SliceIndex(s, b))

\* s[a:]
SliceFrom(s, a) == SubSeq(s, SliceIndex(s, a) + 1, Len(s))

\* s[:b]
SliceTo(s, b) == SubSeq(s, 1, SliceIndex(s, b))

\* s.startswith(p)
StartsWith(s, p) == Len(p) <= Len(s) /\ SubSeq(s, 1, Len(p)) = p

\* s.endswith(p)
EndsWith(s, p) == Len(p) <= Len(s) /\ SubSeq(s, Len(s) - Len(p) + 1, Len(s)) = p

\* s[i:].startswith(p), for 0 <= i
MatchAt(s, p, i) == i + Len(p) <= Len(s) /\ SubSeq(s, i + 1, i + Len(p)) = p

RECURSIVE FindForward(_, _, _, _)
\* the least offset in low..high where sub occurs in s, found offset by
\* offset; -1 when there is none
FindForward(s, sub, low, high) ==
    IF low > high THEN -1
    ELSE IF MatchAt(s, sub, low) THEN low
    ELSE FindForward(s, sub, low + 1, high)

RECURSIVE FindBetween(_, _, _, _)

\* the least offset in low..high where sub occurs in s, given the least such
\* offset in the lower half of low..high; -1 when there is none
FindUpper(s, sub, low, high, lower) ==
    IF lower # -1 THEN lower
    ELSE FindBetween(s, sub, (low + high) \div 2 + 1, high)

\* the least offset in low..high where sub occurs in s: a long range is
\* searched half by half, which bounds the depth of the evaluation
FindBetween(s, sub, low, high) ==
    IF high - low < 32 THEN FindForward(s, sub, low, high)
    ELSE FindUpper(s, sub, low, high,
                   FindBetween(s, sub, low, (low + high) \div 2))

\* s.find(sub, start), for start >= 0 and a non-empty sub
Find(s, sub, start) == FindBetween(s, sub, start, Len(s) - Len(sub))

\* sub in s
Contains(s, sub) == Find(s, sub, 0) # -1

RECURSIVE RFindFrom(_, _, _)
RFindFrom(s, sub, i) ==
    IF i < 0 THEN -1
    ELSE IF MatchAt(s, sub, i) THEN i
    ELSE RFindFrom(s, sub, i - 1)

\* s.rfind(sub)
RFind(s, sub) == RFindFrom(s, sub, Len(s) - Len(sub))

\* c in chars, for a character c and a string of characters chars
CharIn(c, chars) == \E k \in 1..Len(chars) : SubSeq(chars, k, k) = c

\* the characters \s matches and str.strip() removes
Whitespace == " \t\n\r\f"

IsSpace(c) == CharIn(c, Whitespace)

RECURSIVE LStrip(_, _)
\* s.lstrip(chars)
LStrip(s, chars) ==
    IF s # "" /\ CharIn(Head(s), chars) THEN LStrip(Tail(s), chars) ELSE s

RECURSIVE RStrip(_, _)
\* s.rstrip(chars)
RStrip(s, chars) ==
    IF s # "" /\ CharIn(At(s, Len(s) - 1), chars)
    THEN RStrip(SubSeq(s, 1, Len(s) - 1), chars) ELSE s

\* s.strip(chars)
Strip(s, chars) == RStrip(LStrip(s, chars), chars)

RECURSIVE Replace(_, _, _)
\* s.replace(old, new), for a non-empty old
Replace(s, old, new) ==
    IF s = "" THEN ""
    ELSE IF StartsWith(s, old)
         THEN new \o Replace(SubSeq(s, Len(old) + 1, Len(s)), old, new)
         ELSE Head(s) \o Replace(Tail(s), old, new)

Digits == "0123456789"

\* s.isdigit()
IsDigit(s) == s # "" /\ \A k \in 1..Len(s) : CharIn(SubSeq(s, k, k), Digits)

\* a < b for two (start, end) tuples, as Python orders tuples
PairLess(a, b) == a[1] < b[1] \/ (a[1] = b[1] /\ a[2] < b[2])

RECURSIVE InsertPair(_, _)
InsertPair(p, sorted) ==
    IF sorted = <<>> THEN <<p>>
    ELSE IF PairLess(p, Head(sorted)) THEN <<p>> \o sorted
    ELSE <<Head(sorted)>> \o InsertPair(p, Tail(sorted))

RECURSIVE SortPairs(_)
\* sorted(list of tuples)
SortPairs(list) ==
    IF list = <<>> THEN <<>>
    ELSE InsertPair(list[Len(list)], SortPairs(SubSeq(list, 1, Len(list) - 1)))

-----------------------------------------------------------------------------
(* src/utils.py: the module tables.                                        *)

\* the backtick (the lexer reads a backtick up to the next apostrophe)
Backtick == SubSeq("`'", 1, 1)

LOG_TYPES == <<"log", "info", "warn", "error">>

STRING_DELIMITERS == <<"\"", "'", Backtick>>

-----------------------------------------------------------------------------
(* src/utils.py: find_strings.  A span is the tuple <<first, last>>.       *)

RECURSIVE count_backslashes(_, _)
count_backslashes(text, from_pos) ==
    IF from_pos >= 0 /\ At(text, from_pos) = "\\"
    THEN 1 + count_backslashes(text, from_pos - 1)
    ELSE 0

RECURSIVE find_closing_delim(_, _, _)
RECURSIVE find_closing_found(_, _, _)

\* the tests of the inner loop on what input.find(delim, next + 1) found
find_closing_found(text, delim, found) ==
    IF found = -1 THEN -1
    ELSE IF count_backslashes(text, found - 1) % 2 = 0 THEN found
    ELSE find_closing_delim(text, delim, found)

\* the inner loop of find_strings: the next unescaped delim after next, or -1
find_closing_delim(text, delim, next) ==
    find_closing_found(text, delim, Find(text, delim, next + 1))

RECURSIVE find_strings_of(_, _, _)
RECURSIVE find_strings_first(_, _, _)
RECURSIVE find_strings_next(_, _, _, _)

\* the end of one turn of the outer loop: next is what the inner loop left
find_strings_next(text, delim, first, next) ==
    IF next = -1 THEN << <<first, Len(text)>> >>
    ELSE << <<first, next>> >> \o find_strings_of(text, delim, next)

\* one turn of the outer loop, from what input.find(delim, start + 1) found
find_strings_first(text, delim, first) ==
    IF first = -1 THEN <<>>
    ELSE IF count_backslashes(text, first - 1) % 2 # 0
         THEN find_strings_of(text, delim, first + 1)
    ELSE find_strings_next(text, delim, first,
                           find_closing_delim(text, delim, first))

\* the outer loop of find_strings for one delimiter, entered with start
find_strings_of(text, delim, start) ==
    find_strings_first(text, delim, Find(text, delim, start + 1))

RECURSIVE find_strings_delims(_, _)
\* for delim in STRING_DELIMITERS, from the k-th on
find_strings_delims(text, k) ==
    IF k > Len(STRING_DELIMITERS) THEN <<>>
    ELSE find_strings_of(text, STRING_DELIMITERS[k], -1)
         \o find_strings_delims(text, k + 1)

find_strings(text) == SortPairs(find_strings_delims(text, 1))

-----------------------------------------------------------------------------
(* A search token.  The source searches for a str, a {'str': ...} object   *)
(* or a {'re': ..., 'len': ...} object.  Every pattern it uses is a        *)
(* literal, optionally with one leading and one trailing \s, between a     *)
(* lookbehind and a lookahead on one character.                            *)

\* a str, or a {'str': s} object
Str(s) ==
    [re |-> FALSE, lit |-> s, lead_space |-> FALSE, trail_space |-> FALSE,
     not_before |-> "", space_before |-> FALSE,
     not_after |-> "", space_after |-> FALSE, len |-> Len(s)]

\* {'re': '(?<![not_before])lit(?![not_after])', 'len': n}
Re(lit, not_before, not_after, n) ==
    [re |-> TRUE, lit |-> lit, lead_space |-> FALSE, trail_space |-> FALSE,
     not_before |-> not_before, space_before |-> FALSE,
     not_after |-> not_after, space_after |-> FALSE, len |-> n]

\* {'re': '(?<=\s)word(?=\s)', 'len': n}
ReWord(word, n) ==
    [re |-> TRUE, lit |-> word, lead_space |-> FALSE, trail_space |-> FALSE,
     not_before |-> "", space_before |-> TRUE,
     not_after |-> "", space_after |-> TRUE, len |-> n]

\* {'re': '\sword\s'}
ReSpaced(word) ==
    [re |-> TRUE, lit |-> word, lead_space |-> TRUE, trail_space |-> TRUE,
     not_before |-> "", space_before |-> FALSE,
     not_after |-> "", space_after |-> FALSE, len |-> 0]

\* the pattern of token matches text at offset p, when the text searched is
\* text[lo:] (a lookbehind sees nothing before lo)
ReMatchesAt(token, text, p, lo) ==
    LET q == IF token.lead_space THEN p + 1 ELSE p
        e == q + Len(token.lit)
        f == IF token.trail_space THEN e + 1 ELSE e
    IN  /\ token.lead_space => (p < Len(text) /\ IsSpace(At(text, p)))
        /\ MatchAt(text, token.lit, q)
        /\ token.trail_space => (e < Len(text) /\ IsSpace(At(text, e)))
        /\ ~(p > lo /\ CharIn(At(text, p - 1), token.not_before))
        /\ token.space_before => (p > lo /\ IsSpace(At(text, p - 1)))
        /\ ~(f < Len(text) /\ CharIn(At(text, f), token.not_after))
        /\ token.space_after => (f < Len(text) /\ IsSpace(At(text, f)))

RECURSIVE ReSearchFrom(_, _, _, _)
ReSearchFrom(token, text, p, lo) ==
    IF p > Len(text) THEN -1
    ELSE IF ReMatchesAt(token, text, p, lo) THEN p
    ELSE ReSearchFrom(token, text, p + 1, lo)

\* `matches and index + matches.start(0) or -1`: a match at offset 0 of the
\* text gives -1 as well
and_or(found) == IF found = 0 THEN -1 ELSE found

\* one search step of find_not_in_string: the offset of the next occurrence
\* at or after index, or -1
SearchToken(text, token, index) ==
    IF ~token.re THEN Find(text, token.lit, index)
    ELSE and_or(ReSearchFrom(token, text, index, index))

-----------------------------------------------------------------------------
(* src/utils.py: the scanners built on find_strings.                       *)

\* [True for s in string_ranges if s[0] <= index and s[1] >= index]
is_within_string(string_ranges, index) ==
    \E k \in 1..Len(string_ranges) :
        string_ranges[k][1] <= index /\ string_ranges[k][2] >= index

RECURSIVE find_not_in_string_from(_, _, _, _)
RECURSIVE find_not_in_string_found(_, _, _, _)

\* the tests of the loop of find_not_in_string on the occurrence found
find_not_in_string_found(text, string_ranges, token, found) ==
    IF found = -1 THEN -1
    ELSE IF is_within_string(string_ranges, found)
         THEN find_not_in_string_from(text, string_ranges, token, found + 1)
    ELSE found

\* the loop of find_not_in_string, entered at index
find_not_in_string_from(text, string_ranges, token, index) ==
    find_not_in_string_found(text, string_ranges, token,
                             SearchToken(text, token, index))

find_not_in_string(text, token, start) ==
    find_not_in_string_from(text, find_strings(text), token, start)

(* find_matching_parens.  Every find_not_in_string(input, ...) it makes      *)
(* computes the same find_strings(input): string_ranges is computed once    *)
(* and handed on.  None is the empty tuple.                                 *)

RECURSIVE find_matching_parens_in(_, _, _, _, _, _)
RECURSIVE find_matching_parens_loop(_, _, _, _, _, _, _)

\* the end of one turn of the loop
find_matching_parens_turn(text, string_ranges, char_opening, char_closing, opening, first, inner_parens, from, next_opening, next_closing) ==
    IF next_closing # -1 /\ (next_opening = -1 \/ next_opening > next_closing)
    THEN <<opening, next_closing>>
    ELSE IF inner_parens = <<>> THEN first
    ELSE find_matching_parens_loop(text, string_ranges, char_opening,
                                   char_closing, opening, from, first)

\* one turn of the loop, given the inner parens found from start
find_matching_parens_inner(text, string_ranges, char_opening, char_closing, opening, start, first_inner_parens, inner_parens) ==
    LET first == IF first_inner_parens = <<>> THEN inner_parens
                 ELSE first_inner_parens
        from == IF inner_parens # <<>> THEN inner_parens[2] + 1 ELSE start
    IN  find_matching_parens_turn(
            text, string_ranges, char_opening, char_closing, opening, first,
            inner_parens, from,
            find_not_in_string_from(text, string_ranges, Str(char_opening), from),
            find_not_in_string_from(text, string_ranges, Str(char_closing), from))

\* the loop of find_matching_parens
find_matching_parens_loop(text, string_ranges, char_opening, char_closing, opening, start, first_inner_parens) ==
    find_matching_parens_inner(
        text, string_ranges, char_opening, char_closing, opening, start,
        first_inner_parens,
        find_matching_parens_in(text, string_ranges, char_opening, char_closing,
                                start, TRUE))

\* the entry of find_matching_parens, given the first opening and closing
find_matching_parens_enter(text, string_ranges, char_opening, char_closing, _recursion, opening, closing) ==
    IF opening = -1 \/ (_recursion /\ closing < opening) THEN <<>>
    ELSE find_matching_parens_loop(text, string_ranges, char_opening,
                                   char_closing, opening, opening + 1, <<>>)

find_matching_parens_in(text, string_ranges, char_opening, char_closing, start, _recursion) ==
    find_matching_parens_enter(
        text, string_ranges, char_opening, char_closing, _recursion,
        find_not_in_string_from(text, string_ranges, Str(char_opening), start),
        find_not_in_string_from(text, string_ranges, Str(char_closing), start))

find_matching_parens(text, char_opening, char_closing, start, _recursion) ==
    find_matching_parens_in(text, find_strings(text), char_opening,
                            char_closing, start, _recursion)

RECURSIVE rfind_matching_parens_loop(_, _, _, _, _, _, _)
RECURSIVE rfind_matching_parens_found(_, _, _, _, _, _, _)

\* the tests of the loop of rfind_matching_parens on the parens found
rfind_matching_parens_found(text, string_ranges, char_opening, char_closing, end, last_parens, parens) ==
    IF parens = <<>> THEN last_parens
    ELSE IF end # -1 /\ parens[2] >= end THEN last_parens
    ELSE rfind_matching_parens_loop(text, string_ranges, char_opening,
                                    char_closing, end, parens[2] + 1, parens)

rfind_matching_parens_loop(text, string_ranges, char_opening, char_closing, end, start, last_parens) ==
    rfind_matching_parens_found(
        text, string_ranges, char_opening, char_closing, end, last_parens,
        find_matching_parens_in(text, string_ranges, char_opening, char_closing,
                                start, FALSE))

rfind_matching_parens(text, char_opening, char_closing, end) ==
    rfind_matching_parens_loop(text, find_strings(text), char_opening,
                               char_closing, end, 0, <<>>)

RECURSIVE find_all_matching_parens_loop(_, _, _, _, _)
RECURSIVE find_all_matching_parens_found(_, _, _, _, _)

find_all_matching_parens_found(text, string_ranges, char_opening, char_closing, parens) ==
    IF parens = <<>> THEN <<>>
    ELSE <<parens>> \o find_all_matching_parens_loop(
                           text, string_ranges, char_opening, char_closing,
                           parens[1] + 1)

find_all_matching_parens_loop(text, string_ranges, char_opening, char_closing, start) ==
    find_all_matching_parens_found(
        text, string_ranges, char_opening, char_closing,
        find_matching_parens_in(text, string_ranges, char_opening, char_closing,
                                start, FALSE))

\* find_all_matching_parens, given the text's string_ranges
find_all_matching_parens_in(text, string_ranges, char_opening, char_closing) ==
    SortPairs(find_all_matching_parens_loop(text, string_ranges, char_opening,
                                            char_closing, 0))

find_all_matching_parens(text, char_opening, char_closing) ==
    find_all_matching_parens_in(text, find_strings(text), char_opening,
                                char_closing)

RECURSIVE find_all_not_in_strings_loop(_, _, _, _)
RECURSIVE find_all_not_in_strings_found(_, _, _, _)

find_all_not_in_strings_found(text, string_ranges, token, found) ==
    IF found = -1 THEN <<>>
    ELSE <<found>> \o find_all_not_in_strings_loop(
                          text, string_ranges, token, found)

find_all_not_in_strings_loop(text, string_ranges, token, next) ==
    find_all_not_in_strings_found(
        text, string_ranges, token,
        find_not_in_string_from(text, string_ranges, token, next + 1))

find_all_not_in_strings(text, token) ==
    find_all_not_in_strings_loop(text, find_strings(text), token, -1)

\* the parenthesis families: the opening and the closing of each
PARENS == << <<"(", ")">>, <<"[", "]">>, <<"{", "}">> >>

\* [i for i in all_parens if i[0] < next < i[1]] is not empty
is_within_parens(all_parens, next) ==
    \E k \in 1..Len(all_parens) :
        all_parens[k][1] < next /\ next < all_parens[k][2]

RECURSIVE find_all_not_in_parens_or_strings_loop(_, _, _, _, _)
RECURSIVE find_all_not_in_parens_or_strings_found(_, _, _, _, _)

find_all_not_in_parens_or_strings_found(text, string_ranges, all_parens, token, found) ==
    IF found = -1 THEN <<>>
    ELSE (IF is_within_parens(all_parens, found) THEN <<>> ELSE <<found>>)
         \o find_all_not_in_parens_or_strings_loop(
                text, string_ranges, all_parens, token, found)

find_all_not_in_parens_or_strings_loop(text, string_ranges, all_parens, token, next) ==
    find_all_not_in_parens_or_strings_found(
        text, string_ranges, all_parens, token,
        find_not_in_string_from(text, string_ranges, token, next + 1))

RECURSIVE all_parens_from(_, _, _)
\* all_parens.extend(find_all_matching_parens(input, ...)), family by family
\* from the k-th on
all_parens_from(text, string_ranges, k) ==
    IF k > Len(PARENS) THEN <<>>
    ELSE find_all_matching_parens_in(text, string_ranges,
                                     PARENS[k][1], PARENS[k][2])
         \o all_parens_from(text, string_ranges, k + 1)

\* all_parens of find_all_not_in_parens_or_strings, with parens = '([{'
all_parens_of(text) == all_parens_from(text, find_strings(text), 1)

\* find_all_not_in_parens_or_strings(input, char), with parens = '([{'
find_all_not_in_parens_or_strings(text, token) ==
    find_all_not_in_parens_or_strings_loop(
        text, find_strings(text), all_parens_of(text), token, -1)

RECURSIVE is_wrapped_from(_, _, _)
\* the loop of is_wrapped over the families of paren_types, from the k-th on
is_wrapped_from(text, paren_types, k) ==
    IF k > Len(PARENS) THEN FALSE
    ELSE \/ /\ CharIn(PARENS[k][1], paren_types)
            /\ find_matching_parens(text, PARENS[k][1], PARENS[k][2], 0, FALSE)
               = <<0, Len(text) - 1>>
         \/ is_wrapped_from(text, paren_types, k + 1)

is_wrapped(text, paren_types) == is_wrapped_from(text, paren_types, 1)

\* shorten(input), with the setting's value for max_length
shorten(text, max_length) ==
    IF Len(text) <= max_length THEN text
    ELSE SliceTo(text, max_length - 6) \o "..." \o SliceFrom(text, -3)

-----------------------------------------------------------------------------
(* src/utils.py: the delimiter tables.                                     *)

PARAM_DELIMITERS ==
    << Str(","), Str("+"), Str("-"), Str("*"), Str("/"), Str("-"),
       Str("&&"), Str("||"), Str("<"), Str("<="), Str(">="), Str("?="),
       Re("===", "", "", 3), Re("!==", "", "", 3), Re("==", "", "", 2),
       Re(">", "=", "", 1),
       ReWord("and", 3), ReWord("or", 2), ReWord("is", 2), ReWord("isnt", 4),
       ReWord("in", 2) >>

INTERESTING_INDICATORS ==
    << Str(","), Str("+"), Str("-"), Str("/"), Str("*"), Str("&"), Str("|"),
       Str("%"),
       ReWord("in", 0), ReWord("and", 0), ReWord("or", 0), ReWord("is", 0),
       ReWord("isnt", 0) >>

PARAM_DELIMITERS_STRIP == ",+-*/-&&||><=="

-----------------------------------------------------------------------------
(* The character classes and patterns of src/core.py.                      *)

\* the characters [^\s\(\)\[\]\{\}+*/&\|=<>,:~-] excludes
NotInName == Whitespace \o "()[]{}+*/&|=<>,:~-"

\* the characters [^\s\(\)\[\]\{\}+*/&\|=,:~-] excludes
NotInTypeName == Whitespace \o "()[]{}+*/&|=,:~-"

\* what the pattern . matches
IsDot(c) == c # "\n"

\* every character of text[a:b] is matched by .
AllDot(text, a, b) == \A k \in a..(b - 1) : IsDot(At(text, k))

RECURSIVE SkipSpaces(_, _)
\* the offset where a greedy \s* entered at offset p stops
SkipSpaces(text, p) ==
    IF p < Len(text) /\ IsSpace(At(text, p)) THEN SkipSpaces(text, p + 1) ELSE p

RECURSIVE SkipName(_, _)
\* the offset where a greedy [^\s\(\)\[\]\{\}+*/&\|=<>,:~-]* entered at p stops
SkipName(text, p) ==
    IF p < Len(text) /\ ~CharIn(At(text, p), NotInName)
    THEN SkipName(text, p + 1) ELSE p

\* re.match(r'^{.+}\s*:\s*[^\s\(\)\[\]\{\}+*/&\|=,:~-]+', text)
MatchesTypedGroup(text) ==
    /\ StartsWith(text, "{")
    /\ \E j \in 2..(Len(text) - 1) :
          /\ At(text, j) = "}"
          /\ AllDot(text, 1, j)
          /\ LET colon == SkipSpaces(text, j + 1)
                 name  == SkipSpaces(text, colon + 1)
             IN  /\ colon < Len(text) /\ At(text, colon) = ":"
                 /\ name < Len(text) /\ ~CharIn(At(text, name), NotInTypeName)

\* re.match(r'(?<![^\s\(\)\[\]\{\}+*/&\|=<>,:~-])as\s+(.+)$', text): group(1),
\* or "" when the pattern does not match (a match is anchored at offset 0,
\* where the lookbehind sees no character)
MatchAsAlias(text) ==
    LET rest == SkipSpaces(text, 2)
    IN  IF ~StartsWith(text, "as") \/ rest = 2 THEN ""
        ELSE IF rest < Len(text)
             THEN IF AllDot(text, rest, Len(text)) THEN SliceFrom(text, rest)
                  ELSE ""
        ELSE IF rest >= 4 /\ IsDot(At(text, rest - 1)) THEN SliceFrom(text, rest - 1)
        ELSE ""

-----------------------------------------------------------------------------
(* src/core.py: get_param_type, filter_params, clean_param.                *)

get_param_type(text) ==
    IF text = "" THEN ""
    ELSE IF (\E k \in 1..3 : STRING_DELIMITERS[k] = At(text, 0))
            /\ At(text, Len(text) - 1) = At(text, 0)
         THEN "string"
    ELSE "statement"

\* filter_keeps without its test against the constant literals: a faulty
\* variant, which C5 has to reject
filter_keeps_constants(name, unique_names) ==
    /\ name \notin unique_names
    /\ Strip(name, "\"" \o Backtick \o "'[](){}") # ""
    /\ ~StartsWith(name, ".")
    /\ ~EndsWith(name, ".")
    /\ ~IsDigit(Replace(name, ".", ""))

\* filter_keeps without its test against the names already kept: a faulty
\* variant, which C6 has to reject
filter_keeps_repeats(name, unique_names) ==
    /\ Strip(name, "\"" \o Backtick \o "'[](){}") # ""
    /\ name \notin {"true", "false", "null", "undefined"}
    /\ ~StartsWith(name, ".")
    /\ ~EndsWith(name, ".")
    /\ ~IsDigit(Replace(name, ".", ""))

\* the test of filter_params on one descriptor, given the names kept so far
filter_keeps(name, unique_names) ==
    /\ name \notin unique_names
    /\ Strip(name, "\"" \o Backtick \o "'[](){}") # ""
    /\ name \notin {"true", "false", "null", "undefined"}
    /\ ~StartsWith(name, ".")
    /\ ~EndsWith(name, ".")
    /\ ~IsDigit(Replace(name, ".", ""))

RECURSIVE filter_params_from(_, _)
filter_params_from(params, unique_names) ==
    IF params = <<>> THEN <<>>
    ELSE IF filter_keeps(Head(params).name, unique_names)
         THEN <<Head(params)>>
              \o filter_params_from(Tail(params),
                                    unique_names \cup {Head(params).name})
    ELSE filter_params_from(Tail(params), unique_names)

filter_params(params) == filter_params_from(params, {})

RECURSIVE unwrap(_, _)
\* while input and utils.is_wrapped(input, paren_types): input = input[1:-1]
unwrap(text, paren_types) ==
    IF text # "" /\ is_wrapped(text, paren_types)
    THEN unwrap(Slice(text, 1, -1), paren_types)
    ELSE text

\* input[:pos].strip() if pos != -1, else input
cut_at(text, pos) ==
    IF pos # -1 THEN Strip(SliceTo(text, pos), Whitespace) ELSE text

\* coffee's trailing clauses, in the order clean_param removes them
COFFEE_CLAUSES == <<"if", "unless", "for">>

RECURSIVE cut_clauses(_, _)
\* the removal of the trailing clauses from the k-th on
cut_clauses(text, k) ==
    IF k > Len(COFFEE_CLAUSES) THEN text
    ELSE cut_clauses(
             cut_at(text, find_not_in_string(text, ReSpaced(COFFEE_CLAUSES[k]), 0)),
             k + 1)

\* the removal of a default value: `foo = 123` => `foo`
cut_default_value(text) == cut_at(text, find_not_in_string(text, Str("="), 0))

\* the removal of a splat
cut_splat(text) == IF StartsWith(text, "...") THEN SliceFrom(text, 3) ELSE text

\* one round of the repair loop of clean_param, given the parentheses found
cover_up_parens(text, opening_parens, closing_parens) ==
    LET last_closing == closing_parens[Len(closing_parens)]
    IN  IF Len(opening_parens) > Len(closing_parens)
        THEN IF opening_parens[1] = 0 THEN SliceFrom(text, 1)
             ELSE SliceTo(text, opening_parens[1])
        ELSE IF Len(opening_parens) < Len(closing_parens)
        THEN IF last_closing = Len(text) - 1 THEN SliceTo(text, -1)
             ELSE SliceTo(text, last_closing)
        ELSE text

RECURSIVE cover_up(_, _)
\* the repair loop of clean_param over the families from the k-th on
cover_up(text, k) ==
    IF k > Len(PARENS) THEN text
    ELSE cover_up(
             cover_up_parens(text,
                             find_all_not_in_strings(text, Str(PARENS[k][1])),
                             find_all_not_in_strings(text, Str(PARENS[k][2]))),
             k + 1)

\* clean_param from `if not input: return input` on
clean_param_name(no_value) ==
    IF no_value = "" THEN no_value
    ELSE cover_up(cut_splat(Strip(unwrap(no_value, "([{"), " \t;?")), 1)

clean_param(text) ==
    clean_param_name(
        cut_default_value(unwrap(cut_clauses(Strip(text, " \t;"), 1), "([{")))

-----------------------------------------------------------------------------
(* src/core.py: parse_params.  A descriptor is [name, type].  The result   *)
(* is [raised, params]: raised when the call ends in an IndexError.        *)

Returned(params) == [raised |-> FALSE, params |-> params]

Raised == [raised |-> TRUE, params |-> <<>>]

\* the range one `=` destructures away, given the braces after it
destruct_range_parens(text, equal, parens) ==
    IF parens # <<>> THEN <<equal, parens[2] + 1>>
    ELSE <<equal, Find(text, "{", equal) + 1>>

\* the range one `=` destructures away; the empty tuple when it has none
destruct_range(text, equal) ==
    IF At(text, equal + 1) = ">" THEN <<>>
    ELSE IF ~StartsWith(LStrip(SliceFrom(text, equal + 1), Whitespace), "{")
         THEN <<>>
    ELSE destruct_range_parens(
             text, equal, find_matching_parens(text, "{", "}", equal + 1, FALSE))

\* the list of a range, that of no range being empty
ranges_of(d_range) == IF d_range = <<>> THEN <<>> ELSE <<d_range>>

RECURSIVE destruct_ranges(_, _)
destruct_ranges(text, equals) ==
    IF equals = <<>> THEN <<>>
    ELSE ranges_of(destruct_range(text, Head(equals)))
         \o destruct_ranges(text, Tail(equals))

RECURSIVE remove_ranges(_, _)
\* for d_range in reversed(ranges): input = input[:d_range[0]] + input[d_range[1]:]
remove_ranges(text, ranges) ==
    IF ranges = <<>> THEN text
    ELSE LET d_range == ranges[Len(ranges)]
         IN  remove_ranges(SliceTo(text, d_range[1]) \o SliceFrom(text, d_range[2]),
                           SubSeq(ranges, 1, Len(ranges) - 1))

RECURSIVE points_of(_, _)
\* [{'pos': p, 'len': delim.get('len') or len(delim['str'])} for p in points]
points_of(points, delim) ==
    IF points = <<>> THEN <<>>
    ELSE <<[pos |-> Head(points), len |-> delim.len]>>
         \o points_of(Tail(points), delim)

RECURSIVE all_split_points(_, _, _, _)
\* the split points of the delimiters from the k-th on, in table order.  Each
\* find_all_not_in_parens_or_strings(input, delim) computes the same
\* string_ranges and all_parens of the text: they are handed on here
all_split_points(text, string_ranges, all_parens, k) ==
    IF k > Len(PARAM_DELIMITERS) THEN <<>>
    ELSE points_of(find_all_not_in_parens_or_strings_loop(
                       text, string_ranges, all_parens, PARAM_DELIMITERS[k], -1),
                   PARAM_DELIMITERS[k])
         \o all_split_points(text, string_ranges, all_parens, k + 1)

RECURSIVE insert_by_pos(_, _)
\* the place of a later point among sorted earlier ones (sorted is stable)
insert_by_pos(point, sorted) ==
    IF sorted = <<>> THEN <<point>>
    ELSE IF sorted[Len(sorted)].pos <= point.pos THEN sorted \o <<point>>
    ELSE insert_by_pos(point, SubSeq(sorted, 1, Len(sorted) - 1))
         \o <<sorted[Len(sorted)]>>

RECURSIVE sort_by_pos(_)
\* sorted(split_points, key = lambda x: x['pos'])
sort_by_pos(points) ==
    IF points = <<>> THEN <<>>
    ELSE insert_by_pos(points[Len(points)],
                       sort_by_pos(SubSeq(points, 1, Len(points) - 1)))

RECURSIVE split_at(_, _, _)
\* input_split: the pieces before the i-th split point and after, i from 1
split_at(text, split_points, i) ==
    IF i > Len(split_points)
    THEN <<SliceFrom(text, split_points[Len(split_points)].pos
                           + split_points[Len(split_points)].len)>>
    ELSE LET start == IF i > 1
                      THEN split_points[i - 1].pos + split_points[i - 1].len
                      ELSE 0
         IN  <<Slice(text, start, split_points[i].pos)>>
             \o split_at(text, split_points, i + 1)

\* the base case of parse_params, without the type or the value of a colon
cut_colon(text, _flowtype_enabled, colon_pos) ==
    IF colon_pos = <<>> THEN text
    ELSE IF _flowtype_enabled
         THEN RStrip(SliceTo(text, colon_pos[1]), Whitespace)
    ELSE RStrip(SliceFrom(text, colon_pos[1] + 1), Whitespace)

\* input = matches.group(1) if the `as` pattern matches
alias_or(text, alias) == IF alias # "" THEN alias ELSE text

\* the text of the base case, as the `as` pattern leaves it
alias_of(no_colon) == alias_or(no_colon, MatchAsAlias(no_colon))

\* the text of the base case before clean_param
alias_of_colon(text, _flowtype_enabled, colon_pos) ==
    alias_of(cut_colon(text, _flowtype_enabled, colon_pos))

\* {'name': param, 'type': get_param_type(param)}
descriptor(param) == [name |-> param, type |-> get_param_type(param)]

\* the base case of parse_params: text has no split point
parse_single_param(text, _flowtype_enabled) ==
    IF Contains(text, "=>") \/ Contains(text, "function") THEN <<>>
    ELSE filter_params(
             <<descriptor(clean_param(alias_of_colon(
                   text, _flowtype_enabled,
                   find_all_not_in_parens_or_strings(text, Str(":")))))>>)

RECURSIVE parse_params(_, _)
RECURSIVE parse_pieces(_, _)

\* the params of a call and of the calls after it; raised when either is
extended(first, rest) ==
    IF first.raised \/ rest.raised THEN Raised
    ELSE Returned(first.params \o rest.params)

\* if not param: continue; params.extend(parse_params(param, flag))
parse_piece(param, _flowtype_enabled) ==
    IF param = "" THEN Returned(<<>>)
    ELSE parse_params(param, _flowtype_enabled)

\* for param in input_split: ...
parse_pieces(input_split, _flowtype_enabled) ==
    IF input_split = <<>> THEN Returned(<<>>)
    ELSE extended(parse_piece(Strip(Head(input_split),
                                    PARAM_DELIMITERS_STRIP \o " \t"),
                              _flowtype_enabled),
                  parse_pieces(Tail(input_split), _flowtype_enabled))

\* return filter_params(params)
filtered(pieces) ==
    IF pieces.raised THEN Raised ELSE Returned(filter_params(pieces.params))

\* parse_params from the split points on
parse_params_points(body, _flowtype_enabled, split_points) ==
    IF split_points = <<>>
    THEN Returned(parse_single_param(body, _flowtype_enabled))
    ELSE filtered(parse_pieces(split_at(body, split_points, 1),
                               _flowtype_enabled))

\* parse_params on the text inside a group, or on the text that is none
parse_params_body(body, _flowtype_enabled) ==
    parse_params_points(
        body, _flowtype_enabled,
        sort_by_pos(all_split_points(body, find_strings(body),
                                     all_parens_of(body), 1)))

\* parse_params once it knows whether the text is a group, typed or not
parse_params_group(no_destruct, _flowtype_enabled, is_group, is_typed) ==
    parse_params_body(
        IF is_group THEN Slice(no_destruct, 1, -1)
        ELSE IF is_typed
             THEN Slice(Strip(SliceTo(no_destruct, RFind(no_destruct, ":")),
                              Whitespace), 1, -1)
        ELSE no_destruct,
        _flowtype_enabled /\ ~is_group /\ ~is_typed)

\* is the text a typed group, when it is not a group
typed_group(no_destruct, _flowtype_enabled, is_group) ==
    parse_params_group(no_destruct, _flowtype_enabled, is_group,
                       ~is_group /\ MatchesTypedGroup(no_destruct))

\* parse_params once the destructured defaults are removed
parse_params_destructed(no_destruct, _flowtype_enabled) ==
    typed_group(no_destruct, _flowtype_enabled,
                no_destruct # "" /\ is_wrapped(no_destruct, "{["))

\* parse_params on the unwrapped text, given its top-level `=`
parse_params_equals(no_parens, _flowtype_enabled, equals) ==
    IF \E k \in 1..Len(equals) : equals[k] + 1 >= Len(no_parens) THEN Raised
    ELSE parse_params_destructed(
             Strip(remove_ranges(no_parens, destruct_ranges(no_parens, equals)),
                   Whitespace),
             _flowtype_enabled)

\* parse_params on the unwrapped text
parse_params_unwrapped(no_parens, _flowtype_enabled) ==
    IF no_parens = "" THEN Returned(<<>>)
    ELSE parse_params_equals(
             no_parens, _flowtype_enabled,
             find_all_not_in_parens_or_strings(no_parens, Re("=", "=", "=", 0)))

parse_params(text, _flowtype_enabled) ==
    parse_params_unwrapped(unwrap(Strip(text, Whitespace), "("),
                           _flowtype_enabled)

\* The calls parse_params makes of itself: a list of [param, flag], one per
\* piece that is not empty once stripped, up to the first whose call raises.

\* param.strip(to_strip)
stripped_piece(param) == Strip(param, PARAM_DELIMITERS_STRIP \o " \t")

RECURSIVE called_pieces(_, _)
\* for param in input_split: ... parse_params(param, _flowtype_enabled)
called_pieces(input_split, _flowtype_enabled) ==
    IF input_split = <<>> THEN <<>>
    ELSE (IF stripped_piece(Head(input_split)) = "" THEN <<>>
          ELSE <<[param |-> stripped_piece(Head(input_split)),
                  flag |-> _flowtype_enabled]>>)
         \o (IF parse_piece(stripped_piece(Head(input_split)),
                            _flowtype_enabled).raised
             THEN <<>>
             ELSE called_pieces(Tail(input_split), _flowtype_enabled))

\* the calls made when the text is passed on whole, its delimiters included
calls_points_whole(body, _flowtype_enabled, split_points) ==
    IF split_points = <<>> THEN <<>>
    ELSE <<[param |-> body, flag |-> _flowtype_enabled]>>

\* the calls made from the split points on: none in the base case
calls_points(body, _flowtype_enabled, split_points) ==
    IF split_points = <<>> THEN <<>>
    ELSE called_pieces(split_at(body, split_points, 1), _flowtype_enabled)

\* the calls made on the text inside a group, or on the text that is none
calls_body(body, _flowtype_enabled) ==
    calls_points(
        body, _flowtype_enabled,
        sort_by_pos(all_split_points(body, find_strings(body),
                                     all_parens_of(body), 1)))

\* the calls made once it is known whether the text is a group, typed or not
calls_group(no_destruct, _flowtype_enabled, is_group, is_typed) ==
    calls_body(
        IF is_group THEN Slice(no_destruct, 1, -1)
        ELSE IF is_typed
             THEN Slice(Strip(SliceTo(no_destruct, RFind(no_destruct, ":")),
                              Whitespace), 1, -1)
        ELSE no_destruct,
        _flowtype_enabled /\ ~is_group /\ ~is_typed)

\* the calls made, given whether the text is a group
calls_typed(no_destruct, _flowtype_enabled, is_group) ==
    calls_group(no_destruct, _flowtype_enabled, is_group,
                ~is_group /\ MatchesTypedGroup(no_destruct))

\* the calls made once the destructured defaults are removed
calls_destructed(no_destruct, _flowtype_enabled) ==
    calls_typed(no_destruct, _flowtype_enabled,
                no_destruct # "" /\ is_wrapped(no_destruct, "{["))

\* the calls made on the unwrapped text, given its top-level `=`: none when
\* input[equal+1] raises
calls_equals(no_parens, _flowtype_enabled, equals) ==
    IF \E k \in 1..Len(equals) : equals[k] + 1 >= Len(no_parens) THEN <<>>
    ELSE calls_destructed(
             Strip(remove_ranges(no_parens, destruct_ranges(no_parens, equals)),
                   Whitespace),
             _flowtype_enabled)

\* the calls made on the unwrapped text
calls_unwrapped(no_parens, _flowtype_enabled) ==
    IF no_parens = "" THEN <<>>
    ELSE calls_equals(
             no_parens, _flowtype_enabled,
             find_all_not_in_parens_or_strings(no_parens, Re("=", "=", "=", 0)))

\* the calls parse_params(text, _flowtype_enabled) makes of itself
parse_params_calls(text, _flowtype_enabled) ==
    calls_unwrapped(unwrap(Strip(text, Whitespace), "("), _flowtype_enabled)

-----------------------------------------------------------------------------
(* src/core.py: clean_line and clean_identifier.                           *)

\* the greatest offset of a set of offsets, -1 for the empty set
latest(ends) ==
    IF ends = {} THEN -1 ELSE CHOOSE p \in ends : \A q \in ends : q <= p

\* the offset where a (.+) followed by \s+word stops at the latest, when the
\* (.+) starts no earlier than offset low; -1 when there is none
last_clause(text, word, low, needs_more) ==
    latest({p \in (low + 1)..(Len(text) - 1) :
               /\ IsSpace(At(text, p))
               /\ MatchAt(text, word, SkipSpaces(text, p))
               /\ needs_more => SkipSpaces(text, p) + Len(word) < Len(text)
               /\ \E from \in low..(p - 1) :
                     /\ \A k \in (low - 1)..(from - 1) : IsSpace(At(text, k))
                     /\ AllDot(text, from, p)})

\* input[:point] if point != -1, else input
cut_to(text, point) == IF point # -1 THEN SliceTo(text, point) ELSE text

\* input[:point].rstrip() if point != -1, else input
rstrip_to(text, point) ==
    IF point # -1 THEN RStrip(SliceTo(text, point), Whitespace) ELSE text

\* re.match(r'^(\s*import\s+.+)\s+from', text): group(1), or text unchanged
cut_import_from(text) ==
    IF MatchAt(text, "import", SkipSpaces(text, 0))
    THEN cut_to(text, last_clause(text, "from", SkipSpaces(text, 0) + 7, FALSE))
    ELSE text

\* re.match(r'^(\s*for\s+.+)\s+in\s*.+$', text): group(1), or text unchanged
cut_for_in(text) ==
    IF MatchAt(text, "for", SkipSpaces(text, 0))
    THEN cut_to(text, last_clause(text, "in", SkipSpaces(text, 0) + 4, TRUE))
    ELSE text

\* input[:point].rstrip() at the first marker outside strings, if any
cut_comment(text, marker) ==
    rstrip_to(text, find_not_in_string(text, Str(marker), 0))

\* clean_line from `if not input: return input` on
clean_line_statement(unwrapped) ==
    IF unwrapped = "" THEN unwrapped
    ELSE cut_for_in(cut_import_from(
             unwrap(Strip(cut_to(Strip(unwrapped, ";"),
                                 Find(Strip(unwrapped, ";"), ";", 0)),
                          Whitespace),
                    "([{")))

clean_line(text) ==
    clean_line_statement(
        unwrap(cut_comment(cut_comment(Strip(text, Whitespace), "//"), "#"),
               "([{"))

clean_identifier(text) == cut_splat(Strip(text, " \t;+<>-"))

-----------------------------------------------------------------------------
(* src/core.py: the strategies of create_log_statement.  A strategy is     *)
(* [applies, raised, identifier_str, param_str]; None is applies = FALSE,  *)
(* and an absent or None text is "" (the source only tests its truth).     *)
(* Where a function searches one text for several tokens outside parens    *)
(* and strings, the text's string_ranges and all_parens are computed once. *)

NoStrategy ==
    [applies |-> FALSE, raised |-> FALSE, identifier_str |-> "", param_str |-> ""]

RaisedStrategy ==
    [applies |-> FALSE, raised |-> TRUE, identifier_str |-> "", param_str |-> ""]

Strategy(identifier_str, param_str) ==
    [applies |-> TRUE, raised |-> FALSE,
     identifier_str |-> identifier_str, param_str |-> param_str]

\* the assignment pattern r'(?<![<>])=(?!\>)'
AssignmentToken == Re("=", "<>", ">", 0)

\* input[n:].lstrip() after a leading declaration keyword
drop_declaration(text) ==
    IF StartsWith(text, "var ") THEN LStrip(SliceFrom(text, 3), Whitespace)
    ELSE IF StartsWith(text, "let ") THEN LStrip(SliceFrom(text, 3), Whitespace)
    ELSE IF StartsWith(text, "const ") THEN LStrip(SliceFrom(text, 5), Whitespace)
    ELSE text

\* input[:points[0]].rstrip() if points, else input
rstrip_to_first(text, points) ==
    IF points # <<>> THEN RStrip(SliceTo(text, points[1]), Whitespace) ELSE text

\* _parse_assignee, given the top-level `=` and `:` of the text
_parse_assignee_of(text, equals, colons) ==
    IF equals = <<>> /\ colons = <<>> THEN ""
    ELSE drop_declaration(rstrip_to_first(rstrip_to_first(text, equals), colons))

\* _parse_assignee, given the string_ranges and all_parens of the text
_parse_assignee_in(text, string_ranges, all_parens) ==
    _parse_assignee_of(
        text,
        find_all_not_in_parens_or_strings_loop(
            text, string_ranges, all_parens, Re("=", "<>=", "=", 0), -1),
        find_all_not_in_parens_or_strings_loop(
            text, string_ranges, all_parens, Str(":"), -1))

\* _parse_assignee; "" stands for None
_parse_assignee(text) ==
    IF text = "" THEN ""
    ELSE _parse_assignee_in(text, find_strings(text), all_parens_of(text))

RECURSIVE NameStart(_, _)
\* the offset where the run of name characters that ends before offset e starts
NameStart(text, e) ==
    IF e > 0 /\ ~CharIn(At(text, e - 1), NotInName) THEN NameStart(text, e - 1)
    ELSE e

\* re.findall(r'([^\s\(\)\[\]\{\}+*/&\|=<>,:~-]+)$', text): matches[0], or ""
trailing_name(text) == SliceFrom(text, NameStart(text, Len(text)))

\* {')': '(', ']': '[', '}': '{'}[char]
opening_of(char) ==
    IF char = ")" THEN "(" ELSE IF char = "]" THEN "[" ELSE "{"

\* matches[0].strip('.') + extra if matches, else extra
name_with(found, extra) ==
    IF found # "" THEN Strip(found, ".") \o extra ELSE extra

\* name not in ['function'] and name or None
not_function(name) == IF name = "function" THEN "" ELSE name

RECURSIVE _parse_function_name_loop(_, _)

\* one turn of the while loop, given the parens that close the text
_parse_function_name_parens(text, extra, parens) ==
    IF parens = <<>> \/ parens[2] # Len(text) - 1
    THEN [raised |-> FALSE, name |-> ""]
    ELSE _parse_function_name_loop(
             SliceTo(text, parens[1]),
             Slice(text, parens[1], parens[2] + 1) \o extra)

\* the while loop of _parse_function_name and what follows it: [raised, name]
_parse_function_name_loop(text, extra) ==
    LET last == At(text, Len(text) - 1)
    IN  IF text = "" THEN [raised |-> TRUE, name |-> ""]
        ELSE IF CharIn(last, ")}]")
             THEN _parse_function_name_parens(
                      text, extra,
                      rfind_matching_parens(text, opening_of(last), last, -1))
        ELSE [raised |-> FALSE,
              name |-> not_function(name_with(
                           trailing_name(RStrip(text, "-=>:()[]{} \t")), extra))]

\* _parse_function_name: [raised, name], "" for None; raised is its IndexError
_parse_function_name(text) ==
    IF text = "" THEN [raised |-> FALSE, name |-> ""]
    ELSE _parse_function_name_loop(text, "")

\* re.match(r'^\s*word', text)
starts_with_word(text, word) == MatchAt(text, word, SkipSpaces(text, 0))

\* re.match(r'^\s*export(?!\s+function)', text)
is_export(text) ==
    LET after == SkipSpaces(text, 0) + 6
    IN  /\ starts_with_word(text, "export")
        /\ ~(SkipSpaces(text, after) > after
             /\ MatchAt(text, "function", SkipSpaces(text, after)))

\* re.match(r'^.*((function\s*([^\s\(\)\[\]\{\}+*/&\|=<>,:~-]+)?\s*\()|(\=\>)|(\-\>))', text)
is_function(text) ==
    \E k \in 0..(Len(text) - 1) :
        /\ AllDot(text, 0, k)
        /\ \/ MatchAt(text, "=>", k)
           \/ MatchAt(text, "->", k)
           \/ /\ MatchAt(text, "function", k)
              /\ At(text, SkipSpaces(text, SkipName(text, SkipSpaces(text, k + 8)))) = "("

\* re.match(r'([^\s\(\)\[\]\{\}+*/&\|=<>,:~-]+)\s*:\s*[^\(\)]*$', text)
is_function_without_parens_assignment(text) ==
    LET colon == SkipSpaces(text, SkipName(text, 0))
    IN  /\ SkipName(text, 0) > 0
        /\ At(text, colon) = ":"
        /\ ~Contains(SliceFrom(text, colon + 1), "(")
        /\ ~Contains(SliceFrom(text, colon + 1), ")")

\* the text after a return, without the `if ` or `unless ` that leads it
drop_condition(rest) ==
    IF StartsWith(rest, "if ") THEN LStrip(SliceFrom(rest, 3), Whitespace)
    ELSE IF StartsWith(rest, "unless ")
         THEN LStrip(SliceFrom(rest, 7), Whitespace)
    ELSE rest

\* the text after the keyword of a return line
after_return(text) ==
    drop_condition(LStrip(SliceFrom(text, Find(text, "return", 0) + 6), Whitespace))

\* the identifier_str the keyword tests of parse_strategy_simple_var set, ""
\* when they set none
keyword_of(text) ==
    IF starts_with_word(text, "return") THEN "return"
    ELSE IF starts_with_word(text, "import") THEN "import"
    ELSE IF is_export(text) THEN "export"
    ELSE IF starts_with_word(text, "for(") THEN "for"
    ELSE ""

\* the text the keyword tests of parse_strategy_simple_var leave
after_keyword(text, keyword) ==
    IF keyword = "return" THEN after_return(text)
    ELSE IF keyword = "import"
         THEN LStrip(SliceFrom(text, Find(text, "import", 0) + 6), Whitespace)
    ELSE IF keyword = "export"
         THEN LStrip(SliceFrom(text, Find(text, "export", 0) + 6), Whitespace)
    ELSE IF keyword = "for"
         THEN Strip(Slice(text, Find(text, "for", 0) + 4, Find(text, ";", 0)),
                    Whitespace)
    ELSE text

\* a or b, for two texts
or_text(a, b) == IF a # "" THEN a ELSE b

\* input = _parse_assignee(input) or input
assignee_of(rest) == or_text(_parse_assignee(rest), rest)

\* the strategy parse_strategy_simple_var builds
simple_var_of(keyword, assignee, is_label) ==
    Strategy(or_text(keyword, assignee), IF is_label THEN "" ELSE assignee)

\* parse_strategy_simple_var on the unwrapped text, given the keyword that
\* leads it and whether it is a function_without_parens_assignment
simple_var_tested(text, take_inner_, keyword, is_label) ==
    IF \/ /\ find_all_not_in_parens_or_strings(text, AssignmentToken) = <<>>
          /\ ~is_label
          /\ keyword \notin {"return", "export", "import"}
       \/ is_function(text) /\ take_inner_ /\ ~is_label
    THEN NoStrategy
    ELSE simple_var_of(keyword, assignee_of(after_keyword(text, keyword)),
                       is_label)

\* parse_strategy_simple_var on the unwrapped text
simple_var_unwrapped(text, take_inner_) ==
    simple_var_tested(text, take_inner_, keyword_of(text),
                      is_function_without_parens_assignment(text))

parse_strategy_simple_var(line, take_inner_) ==
    simple_var_unwrapped(unwrap(line, "([{"), take_inner_)

\* [utils.find_not_in_string(text, i) for i in INTERESTING_INDICATORS] has a hit
has_interesting_indicator(text) ==
    \E k \in 1..Len(INTERESTING_INDICATORS) :
        find_not_in_string(text, INTERESTING_INDICATORS[k], 0) # -1

\* the top-level `=>` of a text, and its top-level `->` after them
arrows_in(text, string_ranges, all_parens) ==
    find_all_not_in_parens_or_strings_loop(
        text, string_ranges, all_parens, Str("=>"), -1)
    \o find_all_not_in_parens_or_strings_loop(
           text, string_ranges, all_parens, Str("->"), -1)

\* input[:parens[0]] if parens, else input
cut_to_parens(text, parens) ==
    IF parens # <<>> THEN SliceTo(text, parens[1]) ELSE text

\* the removal of lambdas, given the top-level `function` and arrows
remove_lambdas_at(value, fn, arrows) ==
    IF fn # <<>> THEN SliceTo(value, fn[1])
    ELSE IF arrows # <<>>
         THEN cut_to_parens(value, rfind_matching_parens(value, "(", ")", -1))
    ELSE value

\* the removal of lambdas, given the string_ranges and all_parens of the value
remove_lambdas_in(value, string_ranges, all_parens) ==
    remove_lambdas_at(
        value,
        find_all_not_in_parens_or_strings_loop(
            value, string_ranges, all_parens, Str("function"), -1),
        arrows_in(value, string_ranges, all_parens))

\* the value of an assignment without its lambdas (take_inner is false)
remove_lambdas(value) ==
    remove_lambdas_in(value, find_strings(value), all_parens_of(value))

\* parse_strategy_value from `if utils.is_wrapped(input)` on
value_of(take_inner_, strat, value) ==
    IF is_wrapped(value, "([{") THEN strat
    ELSE IF has_interesting_indicator(value)
            /\ ~has_interesting_indicator(strat.identifier_str)
         THEN Strategy(strat.identifier_str,
                       IF take_inner_ THEN value ELSE remove_lambdas(value))
    ELSE NoStrategy

\* parse_strategy_value, given the top-level `=` of the line
value_after(line, take_inner_, strat, equals) ==
    IF equals = <<>> THEN NoStrategy
    ELSE value_of(take_inner_, strat,
                  LStrip(SliceFrom(line, equals[1] + 1), Whitespace))

\* parse_strategy_value, given what its parse_strategy_simple_var returns
value_strategy(line, take_inner_, strat) ==
    IF ~strat.applies THEN NoStrategy
    ELSE value_after(line, take_inner_, strat,
                     find_all_not_in_parens_or_strings(line, AssignmentToken))

parse_strategy_value(line, take_inner_) ==
    value_strategy(line, take_inner_,
                   parse_strategy_simple_var(line, take_inner_))

\* the characters [^\s=<>\(\)\[\]\{\}] excludes
NotInArgument == Whitespace \o "=<>()[]{}"

\* `^head\s+([^\s=<>\(\)\[\]\{\}]+.*)\s*$` matches text, head ending at offset
\* n and the argument starting at offset argument
coffee_call_argument(text, n, argument) ==
    /\ argument > n
    /\ argument < Len(text)
    /\ ~CharIn(At(text, argument), NotInArgument)
    /\ AllDot(text, argument, Len(text))

coffee_call_after(text, n) == coffee_call_argument(text, n, SkipSpaces(text, n))

\* the end of group 1 of
\* r'^(else if|[^\s\(\)\[\]\{\}+*/&\|=<>,:~-]+)\s+([^\s=<>\(\)\[\]\{\}]+.*)\s*$',
\* given the end of the name that leads the text; -1 when nothing matches
coffee_call_head_at(text, name_end) ==
    IF StartsWith(text, "else if") /\ coffee_call_after(text, 7) THEN 7
    ELSE IF name_end > 0 /\ coffee_call_after(text, name_end) THEN name_end
    ELSE -1

coffee_call_head(text) == coffee_call_head_at(text, SkipName(text, 0))

\* parse_strategy_params_coffee, given the end of group 1 of its pattern
coffee_strategy(line, head) ==
    LET identifier_str == Strip(SliceTo(line, head), Whitespace)
        param_str == Strip(SliceFrom(line, SkipSpaces(line, head)), Whitespace)
    IN  IF head = -1 THEN NoStrategy
        ELSE IF SliceTo(line, head) \in
                   {"export", "default", "return", "new", "import", "function"}
             THEN NoStrategy
        ELSE IF identifier_str \in {"var", "let", "const", "function"}
             THEN NoStrategy
        ELSE Strategy(identifier_str, param_str)

parse_strategy_params_coffee(line) == coffee_strategy(line, coffee_call_head(line))

\* tail is matched by \(?(\(\s*\))?, its surrounding whitespace stripped
is_stripped_call_tail(tail) ==
    \/ tail = ""
    \/ tail = "("
    \/ /\ StartsWith(tail, "(") /\ EndsWith(tail, ")") /\ Len(tail) >= 2
       /\ Strip(Slice(tail, 1, -1), Whitespace) = ""
    \/ /\ StartsWith(tail, "((") /\ EndsWith(tail, ")") /\ Len(tail) >= 3
       /\ Strip(Slice(tail, 2, -1), Whitespace) = ""

\* text is matched by \s*\(?(\(\s*\))?\s*$
is_call_tail(text) == is_stripped_call_tail(Strip(text, Whitespace))

\* the match of arrow_variable, given where its group 1 starts and ends
arrow_variable_at(text, name_start, name_end) ==
    IF name_end > 0 /\ name_start < name_end
       /\ is_call_tail(SliceFrom(text, name_end))
    THEN <<name_start, name_end>>
    ELSE <<>>

\* the match of arrow_variable, given where its group 1 ends
arrow_variable_to(text, name_end) ==
    arrow_variable_at(text, NameStart(text, name_end), name_end)

\* re.search(r'([^\s\(\)\[\]\{\}+*/&\|=<>,:~-]+)\s*\(?(\(\s*\))?\s*$', text):
\* <<matches.start(0), the end of group 1>>, or <<>>
arrow_variable(text) ==
    arrow_variable_to(text, Len(RStrip(text, Whitespace \o "()")))

\* strat['identifier_str'] = ... or _parse_function_name(input)
named_strategy(function_name, param_str) ==
    IF function_name.raised THEN RaisedStrategy
    ELSE Strategy(function_name.name, param_str)

\* strat['identifier_str'] = _parse_assignee(input) or ...
assigned_strategy(head, param_str, assignee) ==
    IF assignee # "" THEN Strategy(assignee, param_str)
    ELSE named_strategy(_parse_function_name(head), param_str)

\* parse_strategy_params from `# Find identifier` on
params_strategy(head, param_str) ==
    assigned_strategy(head, param_str, _parse_assignee(head))

\* parse_strategy_params when no variable leads an arrow
params_in_parens(line, parens) ==
    IF parens = <<>> THEN NoStrategy
    ELSE params_strategy(RStrip(SliceTo(line, parens[1]), Whitespace),
                         Slice(line, parens[1] + 1, parens[2]))

\* parse_strategy_params, given the match of the variable before an arrow
params_after(line, take_inner_, matches) ==
    IF matches # <<>>
    THEN params_strategy(RStrip(SliceTo(line, matches[1]), Whitespace),
                         Slice(line, matches[1], matches[2]))
    ELSE params_in_parens(
             line,
             IF take_inner_ THEN rfind_matching_parens(line, "(", ")", -1)
             ELSE find_matching_parens(line, "(", ")", 0, FALSE))

\* the match of the variable before the last of the arrows
last_arrow_variable(line, arrows) ==
    IF arrows # <<>> THEN arrow_variable(SliceTo(line, arrows[Len(arrows)]))
    ELSE <<>>

parse_strategy_params(line, take_inner_) ==
    params_after(line, take_inner_,
                 IF take_inner_
                 THEN last_arrow_variable(
                          line,
                          arrows_in(line, find_strings(line), all_parens_of(line)))
                 ELSE <<>>)

parse_strategy_fallback(line) == Strategy("", line)

-----------------------------------------------------------------------------
(* src/core.py: create_log_statement.  The result is [raised, text]:       *)
(* raised when the call ends in an IndexError.  The source calls           *)
(* parse_strategy_simple_var twice on the cleaned line, once by itself and *)
(* once within parse_strategy_value: the model calls it once.              *)

\* strat_params or strat_coffee_return; raised when strat_params is
params_or_fallback(strat_params, text) ==
    IF strat_params.raised THEN RaisedStrategy
    ELSE IF strat_params.applies THEN strat_params
    ELSE parse_strategy_fallback(text)

\* parse_strategy_params_coffee(...) or parse_strategy_params(...)
coffee_or_params(strat_coffee, text, take_inner_) ==
    IF strat_coffee.applies THEN strat_coffee
    ELSE parse_strategy_params(text, take_inner_)

\* strat = strat_value or strat_simple_var or strat_params or strat_coffee_return
chosen_strategy(strat_value, strat_simple_var, text, take_inner_) ==
    IF strat_value.applies THEN strat_value
    ELSE IF strat_simple_var.applies THEN strat_simple_var
    ELSE params_or_fallback(
             coffee_or_params(parse_strategy_params_coffee(text), text,
                              take_inner_),
             text)

\* "'%s'" % shorten(name).replace("'", "\\'"), without the quotes around it
quoted(name, max_length) == Replace(shorten(name, max_length), "'", "\\'")

\* the argument one descriptor contributes
log_argument(param, display_key, max_length) ==
    IF param.type = "string" \/ ~display_key THEN param.name
    ELSE "'" \o quoted(param.name, max_length) \o ":', " \o param.name

RECURSIVE log_arguments(_, _, _)
\* ', '.join of the arguments after the identifier, each led by ', '
log_arguments(params, display_key, max_length) ==
    IF params = <<>> THEN ""
    ELSE ", " \o log_argument(Head(params), display_key, max_length)
         \o log_arguments(Tail(params), display_key, max_length)

\* "console.log(%s)" % (', '.join(args))
log_statement(identifier_str, alt, params, max_length) ==
    [raised |-> FALSE,
     text |-> "console.log('"
              \o quoted(clean_identifier(or_text(identifier_str, alt)), max_length)
              \o "'"
              \o log_arguments(
                     params,
                     ~(Len(params) = 1 /\ params[1].name = identifier_str),
                     max_length)
              \o ")"]

\* create_log_statement from `strat = strat or {...}` on
log_parsed(strat, parsed, alt, max_length) ==
    IF parsed.raised THEN [raised |-> TRUE, text |-> ""]
    ELSE log_statement(strat.identifier_str, alt, parsed.params, max_length)

\* log_switched without the switch: the chosen strategy's descriptors are kept
log_switched_kept(strat, parsed, strat_simple_var, value_applies, alt, max_length) ==
    log_parsed(strat, parsed, alt, max_length)

\* create_log_statement from the switch to simple_var on
log_switched(strat, parsed, strat_simple_var, value_applies, alt, max_length) ==
    IF parsed.raised THEN [raised |-> TRUE, text |-> ""]
    ELSE IF Len(parsed.params) = 1 /\ strat_simple_var.applies /\ value_applies
         THEN log_parsed(strat_simple_var,
                         parse_params(strat_simple_var.param_str, TRUE),
                         alt, max_length)
    ELSE log_parsed(strat, parsed, alt, max_length)

\* create_log_statement from `if strat: params = parse_params(...)` on
log_chosen(strat, strat_simple_var, value_applies, alt, flowtype_enabled_, max_length) ==
    IF strat.raised THEN [raised |-> TRUE, text |-> ""]
    ELSE log_switched(strat, parse_params(strat.param_str, flowtype_enabled_),
                      strat_simple_var, value_applies, alt, max_length)

\* create_log_statement, given the value and the simple-variable strategy
log_strategies(text, strat_value, strat_simple_var, alt, take_inner_, flowtype_enabled_, max_length) ==
    log_chosen(chosen_strategy(strat_value, strat_simple_var, text, take_inner_),
               strat_simple_var, strat_value.applies, alt, flowtype_enabled_,
               max_length)

\* create_log_statement, given the simple-variable strategy
log_simple_var(text, strat_simple_var, alt, take_inner_, flowtype_enabled_, max_length) ==
    log_strategies(text, value_strategy(text, take_inner_, strat_simple_var),
                   strat_simple_var, alt, take_inner_, flowtype_enabled_,
                   max_length)

\* create_log_statement on the cleaned line
log_cleaned(text, alt, take_inner_, flowtype_enabled_, max_length) ==
    log_simple_var(text, parse_strategy_simple_var(text, take_inner_), alt,
                   take_inner_, flowtype_enabled_, max_length)

create_log_statement(line, alt, take_inner_, flowtype_enabled_, max_length) ==
    log_cleaned(clean_line(line), alt, take_inner_, flowtype_enabled_, max_length)

-----------------------------------------------------------------------------
(* src/core.py: cycle_log_types.  The result is what the function issues: *)
(* [replaced, new_line], with replaced false where it returns before       *)
(* view.replace.                                                           *)

\* what the pattern \w matches, of the ASCII characters
WordCharacters ==
    "abcdefghijklmnopqrstuvwxyzABCDEFGHIJKLMNOPQRSTUVWXYZ0123456789_"

RECURSIVE SkipWord(_, _)
\* the offset where a greedy \w* entered at p stops
SkipWord(text, p) ==
    IF p < Len(text) /\ CharIn(At(text, p), WordCharacters)
    THEN SkipWord(text, p + 1)
    ELSE p

\* console\.(\w+) matched at p: group(1), or "" when it does not match
console_type_at(line, p) ==
    IF StartsWith(SliceFrom(line, p), "console.")
    THEN Slice(line, p + Len("console."), SkipWord(line, p + Len("console.")))
    ELSE ""

\* re.match(r'^\s*console\.(\w+)', line): group(1), or "" when not matches
console_type(line) == console_type_at(line, SkipSpaces(line, 0))

\* utils.LOG_TYPES.index(current_type), for a member
log_type_index(current_type) ==
    (CHOOSE k \in 1..Len(LOG_TYPES) : LOG_TYPES[k] = current_type) - 1

\* inc = direction == 'down' and 1 or -1
cycle_inc(direction) == IF direction = "down" THEN 1 ELSE -1

\* the next type when the direction is not looked at
cycle_next_type_down(current_type, direction) ==
    LOG_TYPES[((log_type_index(current_type) + 1) % Len(LOG_TYPES)) + 1]

\* utils.LOG_TYPES[(utils.LOG_TYPES.index(current_type) + inc)
\*                 % len(utils.LOG_TYPES)]
cycle_next_type(current_type, direction) ==
    LOG_TYPES[((log_type_index(current_type) + cycle_inc(direction)
                + Len(LOG_TYPES)) % Len(LOG_TYPES)) + 1]

\* line.replace('console.' + current_type, 'console.' + next_type)
cycle_new_line(line, current_type, next_type) ==
    Replace(line, "console." \o current_type, "console." \o next_type)

\* cycle_log_types from `if not matches: return` on
cycle_log_types_of(line, current_type, direction) ==
    IF current_type = "" THEN [replaced |-> FALSE, new_line |-> ""]
    ELSE IF \A k \in 1..Len(LOG_TYPES) : LOG_TYPES[k] # current_type
    THEN [replaced |-> FALSE, new_line |-> ""]
    ELSE [replaced |-> TRUE,
          new_line |-> cycle_new_line(line, current_type,
                                      cycle_next_type(current_type,
                                                      direction))]

cycle_log_types(line, direction) ==
    cycle_log_types_of(line, console_type(line), direction)

-----------------------------------------------------------------------------
(* Texts: every concatenation of at most n pieces drawn from a set.        *)

RECURSIVE Texts(_, _)
Texts(pieces, n) ==
    IF n = 0 THEN {""}
    ELSE LET shorter == Texts(pieces, n - 1)
         IN  shorter \cup {t \o p : t \in shorter, p \in pieces}

-----------------------------------------------------------------------------
(* SpecStrings: find_strings applied to every short text over the quote    *)
(* characters, the backslash and a letter.                                 *)

MaxQuoteLen == 5

QuoteChars == {"\"", "'", Backtick, "\\", "a"}

InitStrings ==
    /\ input \in Texts(QuoteChars, MaxQuoteLen)
    /\ alt_identifier = ""
    /\ take_inner = FALSE
    /\ flowtype_enabled = FALSE
    /\ max_identifier_length = 0
    /\ pc = "ready"
    /\ result = <<>>
    /\ loop = <<>>
    /\ session = <<>>

CallFindStrings ==
    /\ pc = "ready"
    /\ pc' = "find_strings"
    /\ result' = find_strings(input)
    /\ UNCHANGED <<input, alt_identifier, take_inner, flowtype_enabled,
                   max_identifier_length, loop,
                   session>>

NextStrings == CallFindStrings

SpecStrings == InitStrings /\ [][NextStrings]_vars

-----------------------------------------------------------------------------
(* SpecParams: parse_params applied, with either flag, to every text of a  *)
(* few pieces: names, a constant, a number, and the punctuation that       *)
(* splits and wraps.                                                       *)

MaxParamPieces == 3

ParamPieces == {"a", "A", "function", "true", "1", ".", ",", " ", "("}

InitParams ==
    /\ input \in Texts(ParamPieces, MaxParamPieces)
    /\ alt_identifier = ""
    /\ take_inner = FALSE
    /\ flowtype_enabled \in BOOLEAN
    /\ max_identifier_length = 0
    /\ pc = "ready"
    /\ result = <<>>
    /\ loop = <<>>
    /\ session = <<>>

CallParseParams ==
    /\ pc = "ready"
    /\ pc' = "parse_params"
    /\ result' = parse_params(input, flowtype_enabled)
    /\ UNCHANGED <<input, alt_identifier, take_inner, flowtype_enabled,
                   max_identifier_length, loop,
                   session>>

NextParams == CallParseParams

SpecParams == InitParams /\ [][NextParams]_vars

-----------------------------------------------------------------------------
(* Spec: create_log_statement applied, with either flag and the default    *)
(* capping length, to assignment lines (a declaration keyword or none, a   *)
(* name, a sum of operands, a trailing function or none) and to every      *)
(* text of a few pieces of call syntax.                                    *)

\* get_setting('max_identifier_length', 21)
DefaultMaxLength == 21

MaxOperands == 2

MaxLinePieces == 4

Keywords == {"", "var ", "let ", "const "}

Names == {"a", "foo", "functionName", "returnValue", "aVeryLongIdentifierName"}

Operands == {"a", "b", "1", "\"x\""}

Lambdas == {"", " + function(c) {"}

LinePieces == {"a", "(", ")", "=", " "}

RECURSIVE Sums(_)
\* the sums of at most n operands
Sums(n) ==
    IF n <= 1 THEN Operands
    ELSE Sums(n - 1) \cup {s \o " + " \o o : s \in Sums(n - 1), o \in Operands}

AssignmentLines ==
    {kw \o name \o " = " \o value \o lambda :
        kw \in Keywords, name \in Names, value \in Sums(MaxOperands),
        lambda \in Lambdas}

Init ==
    /\ input \in AssignmentLines \cup Texts(LinePieces, MaxLinePieces)
    /\ alt_identifier = "alt"
    /\ take_inner \in BOOLEAN
    /\ flowtype_enabled \in BOOLEAN
    /\ max_identifier_length = DefaultMaxLength
    /\ pc = "ready"
    /\ result = <<>>
    /\ loop = <<>>
    /\ session = <<>>

CallCreateLogStatement ==
    /\ pc = "ready"
    /\ pc' = "create_log_statement"
    /\ result' = create_log_statement(input, alt_identifier, take_inner,
                                      flowtype_enabled, max_identifier_length)
    /\ UNCHANGED <<input, alt_identifier, take_inner, flowtype_enabled,
                   max_identifier_length, loop,
                   session>>

Next == CallCreateLogStatement

Spec == Init /\ [][Next]_vars

-----------------------------------------------------------------------------
(* SpecOverride: create_log_statement applied, with either flag and the     *)
(* default capping length, to assignments of a call or of a short sum,     *)
(* with a trailing function or none.                                       *)

MaxTerms == 2

OverrideLines ==
    {kw \o name \o " = " \o value \o lambda :
        kw \in {"", "var "}, name \in {"foo", "obj"},
        value \in Sums(MaxTerms) \cup {"getObj(1, 2)"}, lambda \in Lambdas}

InitOverride ==
    /\ input \in OverrideLines
    /\ alt_identifier = "alt"
    /\ take_inner \in BOOLEAN
    /\ flowtype_enabled \in BOOLEAN
    /\ max_identifier_length = DefaultMaxLength
    /\ pc = "ready"
    /\ result = <<>>
    /\ loop = <<>>
    /\ session = <<>>

NextOverride == CallCreateLogStatement

SpecOverride == InitOverride /\ [][NextOverride]_vars

-----------------------------------------------------------------------------
(* SpecCalls: create_log_statement applied, with either flag and the        *)
(* default capping length, to function definitions and calls: a name and,  *)
(* in parentheses, a comma-separated list of parameter names.              *)

MaxCallParams == 2

ParameterNames == {"a", "b", "functionName"}

\* the forms of the line: what leads the name and what follows the parameters
CallForms == {<<"function ", " {">>, <<"", "">>}

\* the lists of one parameter at least and MaxCallParams at most
ParamLists == UNION {[1..n -> ParameterNames] : n \in 1..MaxCallParams}

RECURSIVE Joined(_)
\* ', '.join(names)
Joined(names) ==
    IF Len(names) = 0 THEN ""
    ELSE IF Len(names) = 1 THEN names[1]
    ELSE names[1] \o ", " \o Joined(Tail(names))

CallLine(form, name, names) ==
    form[1] \o name \o "(" \o Joined(names) \o ")" \o form[2]

InitCalls ==
    /\ input \in {CallLine(form, name, names) :
                      form \in CallForms, name \in Names, names \in ParamLists}
    /\ alt_identifier = "alt"
    /\ take_inner \in BOOLEAN
    /\ flowtype_enabled \in BOOLEAN
    /\ max_identifier_length = DefaultMaxLength
    /\ pc = "ready"
    /\ result = <<>>
    /\ loop = <<>>
    /\ session = <<>>

NextCalls == CallCreateLogStatement

SpecCalls == InitCalls /\ [][NextCalls]_vars

-----------------------------------------------------------------------------
(* SpecReturns: create_log_statement applied, with either flag and the      *)
(* default capping length, to return lines: the keyword and an expression  *)
(* (an operand, two operands around an operator, a call, an object         *)
(* literal, a conditional, a function).                                    *)

ReturnOperators == {" + ", " = ", " => ", ": ", ", "}

ReturnExprs ==
    Operands
    \cup {x \o op \o y : x \in Operands, op \in ReturnOperators, y \in Operands}
    \cup {"getObj(" \o x \o ", " \o y \o ")" : x \in Operands, y \in Operands}
    \cup {"{a: " \o x \o "}" : x \in Operands}
    \cup {"a ? " \o x \o " : " \o y : x \in Operands, y \in Operands}
    \cup {"function(" \o x \o ") {" : x \in Operands}

InitReturns ==
    /\ input \in {"return " \o expr : expr \in ReturnExprs}
    /\ alt_identifier = "alt"
    /\ take_inner \in BOOLEAN
    /\ flowtype_enabled \in BOOLEAN
    /\ max_identifier_length = DefaultMaxLength
    /\ pc = "ready"
    /\ result = <<>>
    /\ loop = <<>>
    /\ session = <<>>

NextReturns == CallCreateLogStatement

SpecReturns == InitReturns /\ [][NextReturns]_vars

-----------------------------------------------------------------------------
(* SpecIdentifiers: create_log_statement applied, with either flag, the     *)
(* default capping length and an alternative identifier that is or is not  *)
(* a name of the line, to every text of a few pieces: a name, a number,    *)
(* the assignment and the sum.                                             *)

MaxIdentifierPieces == 3

IdentifierPieces == {"a", "1", "+", "=", " "}

Alternatives == {"alt", "a"}

InitIdentifiers ==
    /\ input \in Texts(IdentifierPieces, MaxIdentifierPieces)
    /\ alt_identifier \in Alternatives
    /\ take_inner \in BOOLEAN
    /\ flowtype_enabled \in BOOLEAN
    /\ max_identifier_length = DefaultMaxLength
    /\ pc = "ready"
    /\ result = <<>>
    /\ loop = <<>>
    /\ session = <<>>

NextIdentifiers == CallCreateLogStatement

SpecIdentifiers == InitIdentifiers /\ [][NextIdentifiers]_vars

-----------------------------------------------------------------------------
(* SpecKinds: parse_params applied, with either flag, to every text of a    *)
(* few pieces: a string literal, a name, and what joins and splits them.   *)

MaxKindPieces == 3

KindPieces == {"\"a\"", "a", " ", ".", ","}

InitKinds ==
    /\ input \in Texts(KindPieces, MaxKindPieces)
    /\ alt_identifier = ""
    /\ take_inner = FALSE
    /\ flowtype_enabled \in BOOLEAN
    /\ max_identifier_length = 0
    /\ pc = "ready"
    /\ result = <<>>
    /\ loop = <<>>
    /\ session = <<>>

NextKinds == CallParseParams

SpecKinds == InitKinds /\ [][NextKinds]_vars

-----------------------------------------------------------------------------
(* SpecLines: create_log_statement applied to one line after another in    *)
(* one session of the module.  session is [tables, calls]: the module      *)
(* tables the functions read, and the calls made so far with what each     *)
(* returned.  No function of src/core.py or src/utils.py assigns to a      *)
(* module table or keeps a value from one call to the next.                *)

MaxCalls == 2

SessionLines == {"a", "var foo = a + 1", "foo(a, b)"}

\* the module tables of src/utils.py
ModuleTables ==
    [LOG_TYPES |-> LOG_TYPES,
     STRING_DELIMITERS |-> STRING_DELIMITERS,
     PARAM_DELIMITERS |-> PARAM_DELIMITERS,
     INTERESTING_INDICATORS |-> INTERESTING_INDICATORS]

InitLines ==
    /\ input = ""
    /\ alt_identifier = "alt"
    /\ take_inner = FALSE
    /\ flowtype_enabled = FALSE
    /\ max_identifier_length = DefaultMaxLength
    /\ pc = "ready"
    /\ result = <<>>
    /\ loop = <<>>
    /\ session = [tables |-> ModuleTables, calls |-> <<>>]

\* a call that keeps the line of the call before it as the fallback identifier
ProcessLineRemembering ==
    /\ Len(session.calls) < MaxCalls
    /\ \E line \in SessionLines, inner \in BOOLEAN, flow \in BOOLEAN :
        /\ input' = line
        /\ take_inner' = inner
        /\ flowtype_enabled' = flow
        /\ result' = create_log_statement(
                         line,
                         IF session.calls = <<>> THEN alt_identifier ELSE input,
                         inner, flow, max_identifier_length)
        /\ session' = [session EXCEPT
                          !.calls = Append(@, [line |-> line,
                                               take_inner |-> inner,
                                               flowtype_enabled |-> flow,
                                               result |-> result'])]
    /\ pc' = "create_log_statement"
    /\ UNCHANGED <<alt_identifier, max_identifier_length, loop>>

\* one more call of create_log_statement in the session
ProcessLine ==
    /\ Len(session.calls) < MaxCalls
    /\ \E line \in SessionLines, inner \in BOOLEAN, flow \in BOOLEAN :
        /\ input' = line
        /\ take_inner' = inner
        /\ flowtype_enabled' = flow
        /\ result' = create_log_statement(line, alt_identifier, inner, flow,
                                          max_identifier_length)
        /\ session' = [session EXCEPT
                          !.calls = Append(@, [line |-> line,
                                               take_inner |-> inner,
                                               flowtype_enabled |-> flow,
                                               result |-> result'])]
    /\ pc' = "create_log_statement"
    /\ UNCHANGED <<alt_identifier, max_identifier_length, loop>>

NextLines == ProcessLine

SpecLines == InitLines /\ [][NextLines]_vars

-----------------------------------------------------------------------------
(* SpecLoop: find_all_not_in_strings, one turn of its `for i in infinite()` *)
(* at a time, searching for the comma in texts that hold nothing but       *)
(* commas, after a terminated string or none.  loop is [i, next, all]: the *)
(* counter of the generator and the locals of the function.  The operators *)
(* above that model a whole scan compute what the loops return when the    *)
(* generator does not run out, as it cannot on the short texts they are    *)
(* applied to here.                                                        *)

\* def infinite(max_iterations = 200)
max_iterations == 200

MaxOccurrences == 200

\* text * 2
Twice(text) == text \o text

RECURSIVE Repeat(_, _)
\* piece * n, by halving n
Repeat(piece, n) ==
    IF n <= 0 THEN ""
    ELSE IF n % 2 = 1 THEN piece \o Repeat(piece, n - 1)
    ELSE Twice(Repeat(piece, n \div 2))

LoopPrefixes == {"", "\",\""}

InitLoop ==
    /\ input \in {prefix \o Repeat(",", n) :
                      prefix \in LoopPrefixes,
                      n \in (MaxOccurrences - 2)..MaxOccurrences}
    /\ alt_identifier = ""
    /\ take_inner = FALSE
    /\ flowtype_enabled = FALSE
    /\ max_identifier_length = 0
    /\ pc = "ready"
    /\ result = <<>>
    /\ loop = <<>>
    /\ session = <<>>

\* find_not_in_string(input, char, next + 1), for the comma
next_found == find_not_in_string(input, Str(","), loop.next + 1)

\* all = []; next = -1; the generator is created with i = 0
CallFindAllNotInStrings ==
    /\ pc = "ready"
    /\ pc' = "infinite"
    /\ loop' = [i |-> 0, next |-> -1, all |-> <<>>]
    /\ UNCHANGED <<input, alt_identifier, take_inner, flowtype_enabled,
                   max_identifier_length, result,
                   session>>

\* the generator yields and the body finds an occurrence: all.append(next)
LoopAppend ==
    /\ pc = "infinite"
    /\ loop.i < max_iterations
    /\ next_found # -1
    /\ loop' = [i |-> loop.i + 1,
                next |-> next_found,
                all |-> Append(loop.all, next_found)]
    /\ UNCHANGED <<input, alt_identifier, take_inner, flowtype_enabled,
                   max_identifier_length, pc, result,
                   session>>

\* the generator yields and the body finds nothing more: return all
LoopReturn ==
    /\ pc = "infinite"
    /\ loop.i < max_iterations
    /\ next_found = -1
    /\ pc' = "returned"
    /\ result' = loop.all
    /\ UNCHANGED <<input, alt_identifier, take_inner, flowtype_enabled,
                   max_identifier_length, loop,
                   session>>

\* the generator is exhausted: raise Exception("Infinite loop protection ...")
LoopRaise ==
    /\ pc = "infinite"
    /\ loop.i >= max_iterations
    /\ pc' = "raised"
    /\ UNCHANGED <<input, alt_identifier, take_inner, flowtype_enabled,
                   max_identifier_length, result, loop,
                   session>>

NextLoop ==
    \/ CallFindAllNotInStrings
    \/ LoopAppend
    \/ LoopReturn
    \/ LoopRaise

SpecLoop == InitLoop /\ [][NextLoop]_vars

-----------------------------------------------------------------------------
(* SpecParens: find_matching_parens and is_wrapped, the top-level call's   *)
(* `for i in infinite()` one turn at a time, on every text of a few        *)
(* brackets and quotes and on a pair of parentheses around a long row of   *)
(* pairs.  loop is [call, family, from, i, opening, start,                 *)
(* first_inner_parens]: the function called, the bracket family and the    *)
(* start it is called with, the counter of the generator and the locals    *)
(* of find_matching_parens.  The recursive calls, and the                  *)
(* calls is_wrapped makes for the families after the first, are computed   *)
(* by the operators above: their loops do not run out on these texts.      *)

MaxParenPieces == 3

MaxGroups == 201

ParenPieces == {"(", ")", "[", "]", "\""}

\* the values of start the call is made with
Starts(text) == IF Len(text) > MaxParenPieces THEN {0} ELSE 0..Len(text)

InitParens ==
    /\ input \in Texts(ParenPieces, MaxParenPieces)
                 \cup {"(" \o Repeat("()", n) \o ")" :
                          n \in (MaxGroups - 1)..MaxGroups}
    /\ alt_identifier = ""
    /\ take_inner = FALSE
    /\ flowtype_enabled = FALSE
    /\ max_identifier_length = 0
    /\ pc = "ready"
    /\ result = <<>>
    /\ loop = <<>>
    /\ session = <<>>

\* what the function called returns once its find_matching_parens returns
returned_value(call, parens) ==
    IF call = "is_wrapped"
    THEN parens = <<0, Len(input) - 1>> \/ is_wrapped(input, "[{")
    ELSE parens

\* find_matching_parens up to its loop, given the first opening
matching_entered(call, family, from, opening) ==
    /\ loop' = [call |-> call, family |-> family, from |-> from, i |-> 0,
                opening |-> opening, start |-> opening + 1,
                first_inner_parens |-> <<>>]
    /\ pc' = IF opening = -1 THEN "returned" ELSE "infinite"
    /\ result' = IF opening = -1 THEN returned_value(call, <<>>) ELSE result
    /\ UNCHANGED <<input, alt_identifier, take_inner, flowtype_enabled,
                   max_identifier_length, session>>

\* find_matching_parens(input, char_opening, char_closing, start)
CallFindMatchingParens ==
    /\ pc = "ready"
    /\ \E family \in 1..Len(PARENS), start \in Starts(input) :
           matching_entered(
               "find_matching_parens", family, start,
               find_not_in_string(input, Str(PARENS[family][1]), start))

\* is_wrapped(input): its first call of find_matching_parens
CallIsWrapped ==
    /\ pc = "ready"
    /\ matching_entered("is_wrapped", 1, 0,
                        find_not_in_string(input, Str(PARENS[1][1]), 0))

\* matching_turned pairing the outer opening with the closing of the first
\* inner parens when its own level is unbalanced
matching_turned_outer(inner_parens, first, next_opening, next_closing) ==
    IF next_closing # -1 /\ (next_opening = -1 \/ next_opening > next_closing)
    THEN /\ pc' = "returned"
         /\ result' = returned_value(loop.call, <<loop.opening, next_closing>>)
         /\ UNCHANGED loop
    ELSE IF inner_parens = <<>>
    THEN /\ pc' = "returned"
         /\ result' = returned_value(
                          loop.call,
                          IF first = <<>> THEN first
                          ELSE <<loop.opening, first[2]>>)
         /\ UNCHANGED loop
    ELSE /\ loop' = [loop EXCEPT !.i = loop.i + 1,
                                 !.start = inner_parens[2] + 1,
                                 !.first_inner_parens = first]
         /\ UNCHANGED <<pc, result>>

\* one turn of the loop, given the inner parens and the next opening and
\* closing: the call returns, or the loop goes on from the inner parens
matching_turned(inner_parens, first, next_opening, next_closing) ==
    IF next_closing # -1 /\ (next_opening = -1 \/ next_opening > next_closing)
    THEN /\ pc' = "returned"
         /\ result' = returned_value(loop.call, <<loop.opening, next_closing>>)
         /\ UNCHANGED loop
    ELSE IF inner_parens = <<>>
    THEN /\ pc' = "returned"
         /\ result' = returned_value(loop.call, first)
         /\ UNCHANGED loop
    ELSE /\ loop' = [loop EXCEPT !.i = loop.i + 1,
                                 !.start = inner_parens[2] + 1,
                                 !.first_inner_parens = first]
         /\ UNCHANGED <<pc, result>>

\* one turn of the loop, given the inner parens found from start
matching_inner(inner_parens, from) ==
    matching_turned(
        inner_parens,
        IF loop.first_inner_parens = <<>> THEN inner_parens
        ELSE loop.first_inner_parens,
        find_not_in_string(input, Str(PARENS[loop.family][1]), from),
        find_not_in_string(input, Str(PARENS[loop.family][2]), from))

\* the start of the searches after the inner parens
matching_from(inner_parens) ==
    matching_inner(inner_parens,
                   IF inner_parens # <<>> THEN inner_parens[2] + 1
                   ELSE loop.start)

\* the generator yields and the body runs once
MatchingTurn ==
    /\ pc = "infinite"
    /\ loop.i < max_iterations
    /\ matching_from(find_matching_parens(input, PARENS[loop.family][1],
                                          PARENS[loop.family][2], loop.start,
                                          TRUE))
    /\ UNCHANGED <<input, alt_identifier, take_inner, flowtype_enabled,
                   max_identifier_length, session>>

\* the generator is exhausted: raise Exception("Infinite loop protection ...")
MatchingRaise ==
    /\ pc = "infinite"
    /\ loop.i >= max_iterations
    /\ pc' = "raised"
    /\ UNCHANGED <<input, alt_identifier, take_inner, flowtype_enabled,
                   max_identifier_length, result, loop, session>>

NextParens ==
    \/ CallFindMatchingParens
    \/ CallIsWrapped
    \/ MatchingTurn
    \/ MatchingRaise

SpecParens == InitParens /\ [][NextParens]_vars

-----------------------------------------------------------------------------
(* SpecOutside: find_all_not_in_parens_or_strings, one turn of its         *)
(* `for i in infinite()` at a time, for the tokens ',' and ',,' on every   *)
(* text of a few brackets, commas and quotes and on rows of commas as long *)
(* as the ceiling of the generator.  loop is [token, all_parens, i, next,  *)
(* all]: the counter of the generator and the locals of the function.  The *)
(* loops of find_all_matching_parens that fill all_parens do not run out   *)
(* on these texts, so all_parens is taken whole.                           *)

MaxOutsidePieces == 4

MaxSeparators == 200

OutsidePieces == {"(", ")", ",", "\""}

OutsideTokens == {",", ",,"}

InitOutside ==
    /\ input \in Texts(OutsidePieces, MaxOutsidePieces)
                 \cup {Repeat(",", n) :
                           n \in (MaxSeparators - 1)..MaxSeparators}
    /\ alt_identifier = ""
    /\ take_inner = FALSE
    /\ flowtype_enabled = FALSE
    /\ max_identifier_length = 0
    /\ pc = "ready"
    /\ result = <<>>
    /\ loop = <<>>
    /\ session = <<>>

\* find_not_in_string(input, char, next + 1)
outside_found == find_not_in_string(input, Str(loop.token), loop.next + 1)

\* all_parens is filled family by family; all = []; next = -1; the generator
\* is created with i = 0
CallFindAllNotInParensOrStrings ==
    /\ pc = "ready"
    /\ \E token \in OutsideTokens :
           loop' = [token |-> token, all_parens |-> all_parens_of(input),
                    i |-> 0, next |-> -1, all |-> <<>>]
    /\ pc' = "infinite"
    /\ UNCHANGED <<input, alt_identifier, take_inner, flowtype_enabled,
                   max_identifier_length, result,
                   session>>

\* the offsets collected after a turn that found an occurrence at found
outside_collected(all, all_parens, found) ==
    IF is_within_parens(all_parens, found) THEN all ELSE Append(all, found)

\* the generator yields and the body finds an occurrence: all.append(next)
\* unless a pair of all_parens encloses it
OutsideTurn ==
    /\ pc = "infinite"
    /\ loop.i < max_iterations
    /\ outside_found # -1
    /\ loop' = [loop EXCEPT !.i = loop.i + 1,
                            !.next = outside_found,
                            !.all = outside_collected(loop.all,
                                                      loop.all_parens,
                                                      outside_found)]
    /\ UNCHANGED <<input, alt_identifier, take_inner, flowtype_enabled,
                   max_identifier_length, pc, result,
                   session>>

\* the generator yields and the body finds nothing more: return all
OutsideReturn ==
    /\ pc = "infinite"
    /\ loop.i < max_iterations
    /\ outside_found = -1
    /\ pc' = "returned"
    /\ result' = loop.all
    /\ UNCHANGED <<input, alt_identifier, take_inner, flowtype_enabled,
                   max_identifier_length, loop,
                   session>>

\* the generator is exhausted: raise Exception("Infinite loop protection ...")
OutsideRaise ==
    /\ pc = "infinite"
    /\ loop.i >= max_iterations
    /\ pc' = "raised"
    /\ UNCHANGED <<input, alt_identifier, take_inner, flowtype_enabled,
                   max_identifier_length, result, loop,
                   session>>

NextOutside ==
    \/ CallFindAllNotInParensOrStrings
    \/ OutsideTurn
    \/ OutsideReturn
    \/ OutsideRaise

SpecOutside == InitOutside /\ [][NextOutside]_vars
-----------------------------------------------------------------------------
(* SpecCycle: cycle_log_types applied again and again, in either           *)
(* direction, to the current line of a view.  input is the line as the     *)
(* view holds it: view.replace puts new_line in its place.  session is     *)
(* [line, directions]: the line the view held at first and the directions  *)
(* of the calls made since.                                                *)

MaxCycles == 4

Directions == {"down", "up"}

CycleIndents == {"", "  "}

CycleHeads ==
    {"console.log", "console.info", "console.warn", "console.error",
     "console.debug", "console.logs", "log", "x = console.log"}

CycleTails == {"", "(a)", "(console.log)", "(a); console.error(b)"}

InitCycle ==
    /\ input \in {indent \o head \o tail :
                      indent \in CycleIndents, head \in CycleHeads,
                      tail \in CycleTails}
    /\ alt_identifier = ""
    /\ take_inner = FALSE
    /\ flowtype_enabled = FALSE
    /\ max_identifier_length = 0
    /\ pc = "ready"
    /\ result = <<>>
    /\ loop = <<>>
    /\ session = [line |-> input, directions |-> <<>>]

\* the line of the view after the call
cycled_line(line, issued) ==
    IF issued.replaced THEN issued.new_line ELSE line

\* cycle_log_types(view, edit, line_region, line, direction)
CycleLogTypes ==
    /\ pc = "ready"
    /\ Len(session.directions) < MaxCycles
    /\ \E direction \in Directions :
           /\ result' = cycle_log_types(input, direction)
           /\ session' = [session EXCEPT
                              !.directions = Append(@, direction)]
    /\ input' = cycled_line(input, result')
    /\ UNCHANGED <<alt_identifier, take_inner, flowtype_enabled,
                   max_identifier_length, pc, loop>>

NextCycle == CycleLogTypes

SpecCycle == InitCycle /\ [][NextCycle]_vars
-----------------------------------------------------------------------------
(* SpecClean: clean_line applied to every text of a few comment markers,   *)
(* semicolons, parentheses, quotes and letters.                            *)

MaxCleanPieces == 4

CleanPieces == {"a", ";", "\"", "(", ")", "#", "//"}

InitClean ==
    /\ input \in Texts(CleanPieces, MaxCleanPieces)
    /\ alt_identifier = ""
    /\ take_inner = FALSE
    /\ flowtype_enabled = FALSE
    /\ max_identifier_length = 0
    /\ pc = "ready"
    /\ result = <<>>
    /\ loop = <<>>
    /\ session = <<>>

\* clean_line(input)
CallCleanLine ==
    /\ pc = "ready"
    /\ pc' = "returned"
    /\ result' = clean_line(input)
    /\ UNCHANGED <<input, alt_identifier, take_inner, flowtype_enabled,
                   max_identifier_length, loop, session>>

NextClean == CallCleanLine

SpecClean == InitClean /\ [][NextClean]_vars
-----------------------------------------------------------------------------
(* SpecCallbacks: parse_params applied, with either flag, to a list of     *)
(* arguments that ends with a callback: a function expression or an arrow  *)
(* function, its body an expression of a few terms, bare or in braces.     *)

MaxBodyTerms == 2

CallbackOperators == {" + ", " || ", ".", " ? y : "}

RECURSIVE Bodies(_)
\* the expressions of at most n terms
Bodies(n) ==
    IF n <= 1 THEN {"x"}
    ELSE Bodies(n - 1)
         \cup {body \o operator \o "z" :
                   body \in Bodies(n - 1), operator \in CallbackOperators}

ArrowHeads == {"(x) => ", "x => ", "(x, y) => "}

Callbacks ==
    {head \o body : head \in ArrowHeads, body \in Bodies(MaxBodyTerms)}
    \cup {head \o "{ return " \o body \o " }" :
              head \in ArrowHeads, body \in Bodies(MaxBodyTerms)}
    \cup {"function(x) { return " \o body \o " }" :
              body \in Bodies(MaxBodyTerms)}
    \cup {"function(x) {}"}

LeadingArguments == {"a", "a, b", "\"s\", a"}

InitCallbacks ==
    /\ input \in {arguments \o ", " \o callback :
                      arguments \in LeadingArguments, callback \in Callbacks}
    /\ alt_identifier = ""
    /\ take_inner = FALSE
    /\ flowtype_enabled \in BOOLEAN
    /\ max_identifier_length = 0
    /\ pc = "ready"
    /\ result = <<>>
    /\ loop = <<>>
    /\ session = <<>>

NextCallbacks == CallParseParams

SpecCallbacks == InitCallbacks /\ [][NextCallbacks]_vars
-----------------------------------------------------------------------------
(* SpecAnnotations: parse_params applied, with either flag, to a list of   *)
(* distinct fragments: annotated names, groups wrapped in {} or [], a      *)
(* typed group and a plain name.                                           *)

MaxFragments == 2

Fragments ==
    {"a: b", "{c: d}", "[e: f]", "{g: h}: T", "i", "{j: k, l: m}"}

\* the lists of one fragment at least and MaxFragments at most, none twice
FragmentLists ==
    {fragments \in UNION {[1..n -> Fragments] : n \in 1..MaxFragments} :
        \A j, k \in 1..Len(fragments) :
            j # k => fragments[j] # fragments[k]}

InitAnnotations ==
    /\ input \in {Joined(fragments) : fragments \in FragmentLists}
    /\ alt_identifier = ""
    /\ take_inner = FALSE
    /\ flowtype_enabled \in BOOLEAN
    /\ max_identifier_length = 0
    /\ pc = "ready"
    /\ result = <<>>
    /\ loop = <<>>
    /\ session = <<>>

NextAnnotations == CallParseParams

SpecAnnotations == InitAnnotations /\ [][NextAnnotations]_vars
-----------------------------------------------------------------------------
(* SpecAliases: parse_params applied, with either flag, to the members of  *)
(* an import list, each '<name> as <alias>', bare and wrapped in braces.   *)

MaxMembers == 2

ImportedNames == {"foo", "*"}

Aliases == {"bar", "b"}

\* the lists of one member at least and MaxMembers at most, each member a
\* pair of a name and an alias
MemberLists ==
    UNION {[1..n -> ImportedNames \X Aliases] : n \in 1..MaxMembers}

\* '<name> as <alias>' for each member
AliasAtoms(members) ==
    [k \in 1..Len(members) |-> members[k][1] \o " as " \o members[k][2]]

ImportLists ==
    {Joined(AliasAtoms(members)) : members \in MemberLists}
    \cup {"{" \o Joined(AliasAtoms(members)) \o "}" : members \in MemberLists}

InitAliases ==
    /\ input \in ImportLists
    /\ alt_identifier = ""
    /\ take_inner = FALSE
    /\ flowtype_enabled \in BOOLEAN
    /\ max_identifier_length = 0
    /\ pc = "ready"
    /\ result = <<>>
    /\ loop = <<>>
    /\ session = <<>>

NextAliases == CallParseParams

SpecAliases == InitAliases /\ [][NextAliases]_vars
-----------------------------------------------------------------------------
(* SpecFlowtype: create_log_statement applied, with either flag and the    *)
(* default max_identifier_length, to the assignment of a sum of a few      *)
(* operands to an annotated or destructured assignee.                      *)

MaxAnnotatedTerms == 2

AnnotatedAssignees == {"(a: b)", "(x: y)", "{x: y}"}

AnnotatedLines ==
    {assignee \o " = " \o value :
        assignee \in AnnotatedAssignees, value \in Sums(MaxAnnotatedTerms)}

InitFlowtype ==
    /\ input \in AnnotatedLines
    /\ alt_identifier = "alt"
    /\ take_inner \in BOOLEAN
    /\ flowtype_enabled \in BOOLEAN
    /\ max_identifier_length = DefaultMaxLength
    /\ pc = "ready"
    /\ result = <<>>
    /\ loop = <<>>
    /\ session = <<>>

NextFlowtype == CallCreateLogStatement

SpecFlowtype == InitFlowtype /\ [][NextFlowtype]_vars
-----------------------------------------------------------------------------
(* SpecRecursion: parse_params followed down its own calls.  input and     *)
(* flowtype_enabled are the arguments of the invocation entered last; it   *)
(* either calls itself on one of its pieces or returns.  session is        *)
(* [first, caller, depth]: the text of the outermost call, the text of the *)
(* caller of the invocation and the number of invocations above it.  The   *)
(* outermost texts are the short texts over a few pieces and lists nested  *)
(* a few levels deep.                                                      *)

MaxRecursionPieces == 3

MaxNesting == 3

RecursionPieces == {"a", ", ", "(", ")", "{", "}", "="}

RECURSIVE NestedLists(_)
\* lists whose members are lists, at most n levels deep
NestedLists(n) ==
    IF n <= 0 THEN {"a", "b: c"}
    ELSE NestedLists(n - 1)
         \cup {"a, (" \o members \o ")" : members \in NestedLists(n - 1)}
         \cup {"{" \o members \o "}, b" : members \in NestedLists(n - 1)}

InitRecursion ==
    /\ input \in Texts(RecursionPieces, MaxRecursionPieces)
                 \cup NestedLists(MaxNesting)
    /\ alt_identifier = ""
    /\ take_inner = FALSE
    /\ flowtype_enabled \in BOOLEAN
    /\ max_identifier_length = 0
    /\ pc = "parse_params"
    /\ result = <<>>
    /\ loop = <<>>
    /\ session = [first |-> input, caller |-> "", depth |-> 0]

\* params.extend(parse_params(param, _flowtype_enabled)): the invocation
\* calls itself on one of its pieces
ParseParamsCalls ==
    /\ pc = "parse_params"
    /\ \E k \in 1..Len(parse_params_calls(input, flowtype_enabled)) :
           /\ input' = parse_params_calls(input, flowtype_enabled)[k].param
           /\ flowtype_enabled' =
                  parse_params_calls(input, flowtype_enabled)[k].flag
    /\ session' = [session EXCEPT !.caller = input, !.depth = @ + 1]
    /\ UNCHANGED <<alt_identifier, take_inner, max_identifier_length, pc,
                   result, loop>>

\* the invocation returns, or raises
ParseParamsReturns ==
    /\ pc = "parse_params"
    /\ pc' = "returned"
    /\ result' = parse_params(input, flowtype_enabled)
    /\ UNCHANGED <<input, alt_identifier, take_inner, flowtype_enabled,
                   max_identifier_length, loop, session>>

NextRecursion ==
    \/ ParseParamsCalls
    \/ ParseParamsReturns

SpecRecursion == InitRecursion /\ [][NextRecursion]_vars
-----------------------------------------------------------------------------
(* SpecCover: clean_param applied to every text of a few brackets of two   *)
(* families, quotes and letters.                                           *)

MaxCoverPieces == 4

CoverPieces == {"a", "(", ")", "[", "]", "\""}

InitCover ==
    /\ input \in Texts(CoverPieces, MaxCoverPieces)
    /\ alt_identifier = ""
    /\ take_inner = FALSE
    /\ flowtype_enabled = FALSE
    /\ max_identifier_length = 0
    /\ pc = "ready"
    /\ result = <<>>
    /\ loop = <<>>
    /\ session = <<>>

\* clean_param(input)
CallCleanParam ==
    /\ pc = "ready"
    /\ pc' = "returned"
    /\ result' = clean_param(input)
    /\ UNCHANGED <<input, alt_identifier, take_inner, flowtype_enabled,
                   max_identifier_length, loop, session>>

NextCover == CallCleanParam

SpecCover == InitCover /\ [][NextCover]_vars
-----------------------------------------------------------------------------
(* SpecShorten: shorten applied to the leading characters of a long name,  *)
(* under every setting of max_identifier_length up to one past the         *)
(* default.                                                                *)

MaxNameLen == 26

MaxSetting == 22

LongName == "aVeryLongIdentifierNameWithATail"

InitShorten ==
    /\ input \in {SubSeq(LongName, 1, n) : n \in 0..MaxNameLen}
    /\ alt_identifier = ""
    /\ take_inner = FALSE
    /\ flowtype_enabled = FALSE
    /\ max_identifier_length \in 0..MaxSetting
    /\ pc = "ready"
    /\ result = <<>>
    /\ loop = <<>>
    /\ session = <<>>

CallShorten ==
    /\ pc = "ready"
    /\ pc' = "shorten"
    /\ result' = shorten(input, max_identifier_length)
    /\ UNCHANGED <<input, alt_identifier, take_inner, flowtype_enabled,
                   max_identifier_length, loop,
                   session>>

NextShorten == CallShorten

SpecShorten == InitShorten /\ [][NextShorten]_vars

-----------------------------------------------------------------------------
(* The claims.                                                             *)

\* the spans are sorted by start offset
SpansSorted(spans) ==
    \A k \in 1..(Len(spans) - 1) : spans[k][1] <= spans[k + 1][1]

\* of any two spans, one ends strictly before the other starts
SpansDisjoint(spans) ==
    \A j, k \in 1..Len(spans) :
        j # k => spans[j][2] < spans[k][1] \/ spans[k][2] < spans[j][1]

HasQuote(text) ==
    \E k \in 1..3 : Contains(text, STRING_DELIMITERS[k])

\* C1: for every text, find_strings returns spans sorted by start of which no
\* two overlap, and the empty list for a text without any quote character.
C1_SortedDisjointSpans ==
    pc = "find_strings" =>
        /\ SpansSorted(result)
        /\ SpansDisjoint(result)
        /\ (~HasQuote(input) => result = <<>>)

-----------------------------------------------------------------------------
(* The claims about parse_params, under SpecParams.                        *)

RECURSIVE comma_parts(_)
\* the parts of a text between its commas, each stripped of whitespace
comma_parts(text) ==
    LET comma == Find(text, ",", 0)
    IN  IF comma = -1 THEN <<Strip(text, Whitespace)>>
        ELSE <<Strip(SliceTo(text, comma), Whitespace)>>
             \o comma_parts(SliceFrom(text, comma + 1))

IdentifierChars ==
    "abcdefghijklmnopqrstuvwxyzABCDEFGHIJKLMNOPQRSTUVWXYZ0123456789_$"

ConstantLiterals == {"true", "false", "null", "undefined"}

\* a non-empty run of identifier characters
IsName(name) ==
    name # "" /\ \A k \in 1..Len(name) : CharIn(SubSeq(name, k, k), IdentifierChars)

\* a name that is an identifier: no leading digit, no constant literal, and
\* not the reserved word function
IsPlainIdentifier(name) ==
    /\ IsName(name)
    /\ ~CharIn(Head(name), Digits)
    /\ name \notin ConstantLiterals \cup {"function"}

Distinct(names) ==
    \A j, k \in 1..Len(names) : j # k => names[j] # names[k]

\* one statement descriptor per name, in order
Statements(names) ==
    [k \in 1..Len(names) |-> [name |-> names[k], type |-> "statement"]]

\* the offset (from 1) of the first occurrence of a name in a list, 0 if none
FirstIndex(names, name) ==
    IF \E k \in 1..Len(names) : names[k] = name
    THEN CHOOSE k \in 1..Len(names) :
            names[k] = name /\ \A j \in 1..(k - 1) : names[j] # name
    ELSE 0

\* C4: parse_params on a comma-separated list of n distinct plain identifiers
\* returns exactly n descriptors, all of kind statement, in the same order.
C4_IdentifierListParsed ==
    pc = "parse_params" =>
        LET names == comma_parts(input)
        IN  (/\ \A k \in 1..Len(names) : IsPlainIdentifier(names[k])
             /\ Distinct(names))
            => result = Returned(Statements(names))

\* a name that reads as a number: digits and dots, with one digit at least
IsNumeric(name) ==
    /\ \A k \in 1..Len(name) : CharIn(SubSeq(name, k, k), Digits \o ".")
    /\ \E k \in 1..Len(name) : CharIn(SubSeq(name, k, k), Digits)

\* a name of nothing but quote and bracket characters (the empty name too)
OnlyQuotesAndBrackets(name) ==
    \A k \in 1..Len(name) :
        CharIn(SubSeq(name, k, k), "\"'" \o Backtick \o "[](){}")

\* C5: no descriptor parse_params returns is named true, false, null or
\* undefined, is purely numeric, is empty, or is made of quote and bracket
\* characters only.
C5_NoConstantNames ==
    (pc = "parse_params" /\ ~result.raised) =>
        \A k \in 1..Len(result.params) :
            /\ result.params[k].name \notin ConstantLiterals
            /\ ~IsNumeric(result.params[k].name)
            /\ ~OnlyQuotesAndBrackets(result.params[k].name)

\* a list of a constant and a name comes back with the name alone
C5_Witness ==
    /\ pc = "parse_params"
    /\ input = "true,a"
    /\ result = Returned(Statements(<<"a">>))

C7_SingleAtomIdempotent ==
    (pc = "parse_params" /\ ~result.raised /\ Len(result.params) = 1) =>
        parse_params(result.params[1].name, flowtype_enabled)
            = Returned(result.params)

-----------------------------------------------------------------------------
(* The claim about the scan loops, under SpecLoop.                         *)

\* C3: on a well-formed text (balanced brackets, terminated strings), however
\* many occurrences of the searched token it holds, no scan loop driven by
\* infinite() exhausts its ceiling: the exception is never raised.
C3_CeilingNeverReached == pc # "raised"

-----------------------------------------------------------------------------
(* The claim about shorten, under SpecShorten.                             *)

\* C8: for every maximum and every name longer than it, shorten returns a text
\* of exactly the maximum's length: the name's first max-6 characters, then
\* '...', then its last 3 characters; a name no longer than the maximum comes
\* back unchanged.
C8_CappedToMaximum ==
    pc = "shorten" =>
        IF Len(input) > max_identifier_length
        THEN /\ Len(result) = max_identifier_length
             /\ result = SubSeq(input, 1, max_identifier_length - 6) \o "..."
                         \o SubSeq(input, Len(input) - 2, Len(input))
        ELSE result = input

-----------------------------------------------------------------------------
(* The claims about create_log_statement, under Spec.                      *)

\* C2: create_log_statement is total: for every line and both values of either
\* flag it returns without raising, and the text it returns has the form
\* console.log('<identifier>'<, arg>*), the quoted identifier coming first.
C2_TotalAndFormed ==
    pc = "create_log_statement" =>
        /\ ~result.raised
        /\ StartsWith(result.text, "console.log('")
        /\ EndsWith(result.text, ")")

\* C9: for every plain identifier no longer than the capping maximum, led by
\* var, let, const or nothing, and for both values of either flag, the line
\* '<kw> name = 1' gives exactly console.log('name', name).
C9_SimpleAssignmentLogsTarget ==
    pc = "create_log_statement" =>
        \A kw \in Keywords, name \in Names :
            (/\ input = kw \o name \o " = 1"
             /\ IsPlainIdentifier(name)
             /\ Len(name) <= max_identifier_length)
            => result = [raised |-> FALSE,
                         text |-> "console.log('" \o name \o "', " \o name \o ")"]

\* the text before the assignment of an assignment line
LeftHandSide(line) == SliceTo(line, Find(line, " = ", 0))

\* the text after the assignment of an assignment line
RightHandSide(line) == SliceFrom(line, Find(line, " = ", 0) + 3)

\* the name an assignment line assigns to
LeftHandName(line) ==
    CHOOSE name \in Names : \E kw \in Keywords : LeftHandSide(line) = kw \o name

RECURSIVE LabelledPairs(_)
\* the descriptors as the arguments 'name:', name, each led by ', '
LabelledPairs(params) ==
    IF params = <<>> THEN ""
    ELSE ", '" \o Head(params).name \o ":', " \o Head(params).name
         \o LabelledPairs(Tail(params))

\* C10: the value strategy wins over the simple-variable strategy: for an
\* assignment whose right-hand side is not wrapped in brackets, holds an
\* interesting operator and decomposes into two descriptors or more, while the
\* left-hand side holds no interesting operator, the identifier is the
\* left-hand name and the arguments are the right-hand sub-expressions as
\* labelled pairs.
C10_ValueBeforeSimpleVariable ==
    (/\ pc = "create_log_statement"
     /\ input \in AssignmentLines
     /\ ~is_wrapped(RightHandSide(input), "([{")
     /\ has_interesting_indicator(RightHandSide(input))
     /\ ~has_interesting_indicator(LeftHandName(input))
     /\ Len(parse_params(RightHandSide(input), flowtype_enabled).params) >= 2)
    => result = [raised |-> FALSE,
                 text |-> "console.log('" \o LeftHandName(input) \o "'"
                          \o LabelledPairs(
                                 parse_params(RightHandSide(input),
                                              flowtype_enabled).params)
                          \o ")"]

-----------------------------------------------------------------------------
(* The claims about the override, the parameter strategy and the return    *)
(* lines of create_log_statement.                                          *)

\* the identifier and the descriptors the override rule prescribes, given the
\* chosen strategy and the descriptors of its parameter string
override_expected(chosen, parsed, strat_simple_var) ==
    IF /\ chosen # strat_simple_var
       /\ strat_simple_var.applies
       /\ Len(parsed.params) = 1
    THEN [identifier_str |-> strat_simple_var.identifier_str,
          params |-> parse_params(strat_simple_var.param_str, TRUE).params]
    ELSE [identifier_str |-> chosen.identifier_str, params |-> parsed.params]

\* the same, given the chosen strategy
override_chosen(chosen, strat_simple_var, flowtype_enabled_) ==
    override_expected(chosen, parse_params(chosen.param_str, flowtype_enabled_),
                      strat_simple_var)

\* the same, given the simple-variable strategy of the cleaned line
override_simple_var(text, strat_simple_var, take_inner_, flowtype_enabled_) ==
    override_chosen(
        chosen_strategy(value_strategy(text, take_inner_, strat_simple_var),
                        strat_simple_var, text, take_inner_),
        strat_simple_var, flowtype_enabled_)

\* the same, on the cleaned line
override_cleaned(text, take_inner_, flowtype_enabled_) ==
    override_simple_var(text, parse_strategy_simple_var(text, take_inner_),
                        take_inner_, flowtype_enabled_)

\* the statement built from an identifier and descriptors
statement_of(built, alt, max_length) ==
    log_statement(built.identifier_str, alt, built.params, max_length)

\* C11: whenever the chosen strategy is not SimpleVariable, SimpleVariable is
\* derivable too and the chosen strategy's parameter string parses to exactly
\* one descriptor, the statement is built from SimpleVariable's identifier and
\* the descriptors of SimpleVariable's parameter string; in every other case it
\* is built from the chosen strategy's identifier and descriptors.
C11_SingleParameterOverride ==
    (pc = "create_log_statement" /\ ~result.raised) =>
        result = statement_of(
                     override_cleaned(clean_line(input), take_inner,
                                      flowtype_enabled),
                     alt_identifier, max_identifier_length)

\* a sum of one name and a number is logged as the variable it is assigned to
C11_Witness ==
    /\ pc = "create_log_statement"
    /\ input = "var foo = a + 1"
    /\ result = [raised |-> FALSE, text |-> "console.log('foo', foo)"]

\* C12: for a function definition 'function name(p1, ..., pn) {' or a call
\* 'name(p1, ..., pn)' of n >= 1 distinct plain identifiers other than the
\* name, with both values of take_inner, the statement is exactly
\* console.log('name', 'p1:', p1, ..., 'pn:', pn).
C12_ParametersLogged ==
    pc = "create_log_statement" =>
        \A form \in CallForms, name \in Names, names \in ParamLists :
            (/\ input = CallLine(form, name, names)
             /\ IsPlainIdentifier(name)
             /\ Len(name) <= max_identifier_length
             /\ \A k \in 1..Len(names) : IsPlainIdentifier(names[k])
             /\ \A k \in 1..Len(names) : names[k] # name
             /\ Distinct(names))
            => result = [raised |-> FALSE,
                         text |-> "console.log('" \o name \o "'"
                                  \o LabelledPairs(Statements(names)) \o ")"]

\* the expression of a return line
ReturnedExpr(line) == SliceFrom(line, Len("return "))

\* the statement of a return line whose expression parses to the descriptors
ReturnStatement(parsed, alt, max_length) ==
    IF parsed.raised THEN [raised |-> TRUE, text |-> ""]
    ELSE log_statement("return", alt, parsed.params, max_length)

\* C13: for every line 'return <expr>' the identifier of the statement is
\* return and its arguments are exactly the descriptors parse_params yields
\* for <expr>: a constant, a number or an object literal of constants gives
\* console.log('return'), a single call expression one labelled pair.
C13_ReturnLogsExpression ==
    pc = "create_log_statement" =>
        result = ReturnStatement(
                     parse_params(ReturnedExpr(input), flowtype_enabled),
                     alt_identifier, max_identifier_length)

-----------------------------------------------------------------------------
(* The claims about the labels and the identifier, under SpecIdentifiers.  *)

\* the identifier a statement is built with: identifier_str when supplied, the
\* alternative identifier otherwise
resolved_identifier(built, alt) ==
    IF built.identifier_str # "" THEN built.identifier_str ELSE alt

\* the statement in which the one descriptor named as the resolved identifier
\* goes without its label, and every other statement descriptor with it
labelled_statement(built, alt, max_length) ==
    [raised |-> FALSE,
     text |-> "console.log('"
              \o quoted(clean_identifier(resolved_identifier(built, alt)),
                        max_length)
              \o "'"
              \o log_arguments(
                     built.params,
                     ~(/\ Len(built.params) = 1
                       /\ built.params[1].name = resolved_identifier(built, alt)),
                     max_length)
              \o ")"]

\* C14: a descriptor is rendered without its label if and only if it is the
\* only descriptor and its name equals the resolved identifier (identifier_str
\* when supplied, the alternative identifier otherwise); in every other case
\* every statement descriptor is rendered as the labelled pair 'name:', name.
C14_LabelUnlessIdentifier ==
    (pc = "create_log_statement" /\ ~result.raised) =>
        result = labelled_statement(
                     override_cleaned(clean_line(input), take_inner,
                                      flowtype_enabled),
                     alt_identifier, max_identifier_length)

\* the identifier rendered in a statement: what stands between the quotes
\* after console.log(
rendered_identifier(text) ==
    SubSeq(text, Len("console.log('") + 1,
           Find(text, "'", Len("console.log('")))

\* C15: the quoted first argument is identifier_str when present and the
\* alternative identifier otherwise; for a non-empty alternative identifier
\* the rendered identifier is never the empty string.
C15_IdentifierNeverEmpty ==
    (pc = "create_log_statement" /\ ~result.raised) =>
        /\ StartsWith(result.text, "console.log('")
        /\ alt_identifier # "" => rendered_identifier(result.text) # ""

-----------------------------------------------------------------------------
(* The claim about the kinds of the descriptors, under SpecKinds.          *)

RECURSIVE ClosingQuote(_, _, _)
\* the place (from 1) of the first occurrence, at or after the k-th character,
\* of the quote character that no backslash escapes; 0 if there is none
ClosingQuote(name, quote, k) ==
    IF k > Len(name) THEN 0
    ELSE IF SubSeq(name, k, k) = "\\" THEN ClosingQuote(name, quote, k + 2)
    ELSE IF SubSeq(name, k, k) = quote THEN k
    ELSE ClosingQuote(name, quote, k + 1)

\* a single string literal: the quote character that opens the name closes it
\* at its last character and not before
IsStringLiteral(name) ==
    /\ Len(name) >= 2
    /\ CharIn(SubSeq(name, 1, 1), "\"'" \o Backtick)
    /\ ClosingQuote(name, SubSeq(name, 1, 1), 2) = Len(name)

\* C16: every descriptor parse_params returns is of kind string if and only
\* if its whole name is a single string literal, wrapped by one matching quote
\* character, and of kind statement otherwise; there is no other kind.
C16_StringIffLiteral ==
    (pc = "parse_params" /\ ~result.raised) =>
        \A k \in 1..Len(result.params) :
            /\ result.params[k].type \in {"string", "statement"}
            /\ result.params[k].type = "string"
                   <=> IsStringLiteral(result.params[k].name)

-----------------------------------------------------------------------------
(* The claim about the independence of the lines, under SpecLines.         *)

-----------------------------------------------------------------------------
(* The claims about find_matching_parens and is_wrapped, under SpecParens. *)
(* A bracket counts when it stands in no span of find_strings.             *)

\* the offsets within lo..hi at which the character stands outside strings
Standing(text, spans, char, lo, hi) ==
    {k \in lo..hi : At(text, k) = char /\ ~is_within_string(spans, k)}

\* the openers less the closers that stand within lo..hi
Depth(text, spans, opener, closer, lo, hi) ==
    Cardinality(Standing(text, spans, opener, lo, hi))
        - Cardinality(Standing(text, spans, closer, lo, hi))

\* the brackets standing within lo..hi are balanced: no closer is unopened
\* and no opener unclosed
BalancedWithin(text, spans, opener, closer, lo, hi) ==
    /\ \A k \in lo..hi : Depth(text, spans, opener, closer, lo, k) >= 0
    /\ Depth(text, spans, opener, closer, lo, hi) = 0

\* the least member of a non-empty set of offsets
Least(offsets) == CHOOSE k \in offsets : \A j \in offsets : k <= j

\* the closers that close the opener standing at first
ClosersOf(text, spans, opener, closer, first) ==
    {k \in Standing(text, spans, closer, first, Len(text) - 1) :
        Depth(text, spans, opener, closer, first, k) = 0}

\* the opener standing first at or after start with the closer that matches
\* it under nesting; None when no opener stands there
NestedParens(text, spans, opener, closer, start) ==
    IF Standing(text, spans, opener, start, Len(text) - 1) = {} THEN <<>>
    ELSE <<Least(Standing(text, spans, opener, start, Len(text) - 1)),
           Least(ClosersOf(text, spans, opener, closer,
                           Least(Standing(text, spans, opener, start,
                                          Len(text) - 1))))>>

\* the text begins with an opener of the family and ends with the closer
\* that matches it
WrappedBy(text, spans, opener, closer) ==
    /\ At(text, 0) = opener
    /\ At(text, Len(text) - 1) = closer
    /\ ClosersOf(text, spans, opener, closer, 0) # {}
    /\ NestedParens(text, spans, opener, closer, 0) = <<0, Len(text) - 1>>

\* is_wrapped answers as the nesting of the text says
wrapped_as_nested(text, spans) ==
    /\ pc = "returned"
    /\ result = \E k \in 1..Len(PARENS) :
                    WrappedBy(text, spans, PARENS[k][1], PARENS[k][2])

\* C18: is_wrapped(text) is true if and only if, for one of the three
\* families, the text begins with the opener, ends with the closer, and that
\* closer is the one matching the opener at offset 0.
C18_WrappedIffMatching ==
    (pc \in {"returned", "raised"} /\ loop.call = "is_wrapped") =>
        wrapped_as_nested(input, find_strings(input))

\* find_matching_parens returns the nested parens of a balanced text
parens_as_nested(text, spans, opener, closer) ==
    BalancedWithin(text, spans, opener, closer, 0, Len(text) - 1) =>
        /\ pc = "returned"
        /\ result = NestedParens(text, spans, opener, closer, loop.from)

\* C19: for a text whose brackets of the family are balanced outside strings,
\* find_matching_parens(text, open, close, start) returns (o, c), o the first
\* opener outside strings at or after start and c the closer matching it
\* under nesting, and None exactly when there is no such opener.
C19_BalancedParensMatched ==
    (pc \in {"returned", "raised"} /\ loop.call = "find_matching_parens") =>
        parens_as_nested(input, find_strings(input), PARENS[loop.family][1],
                         PARENS[loop.family][2])

\* an opener and a closer standing outside strings, with balanced brackets
\* strictly between them
GenuineParens(text, spans, opener, closer, parens) ==
    /\ parens[1] < parens[2]
    /\ parens[1] \in Standing(text, spans, opener, 0, Len(text) - 1)
    /\ parens[2] \in Standing(text, spans, closer, 0, Len(text) - 1)
    /\ BalancedWithin(text, spans, opener, closer, parens[1] + 1,
                      parens[2] - 1)

\* C20: for every text, balanced or not, whenever find_matching_parens returns
\* a pair (o, c): o < c, an opener stands at o and a closer at c, neither in a
\* string, and the brackets strictly between them are balanced.
C20_ReturnedParensGenuine ==
    (/\ pc = "returned"
     /\ loop.call = "find_matching_parens"
     /\ result # <<>>)
    => GenuineParens(input, find_strings(input), PARENS[loop.family][1],
                     PARENS[loop.family][2], result)

\* of an unbalanced text the inner parens are returned
C20_Witness ==
    /\ pc = "returned"
    /\ loop.call = "find_matching_parens"
    /\ input = "(()"
    /\ loop.from = 0
    /\ result = <<1, 2>>

-----------------------------------------------------------------------------
(* C21: the offsets find_all_not_in_parens_or_strings returns.             *)

\* a bracket pair of some family, genuine in the sense above, has the offset
\* strictly between its opener and its closer
EnclosedByParens(text, spans, k) ==
    \E family \in 1..Len(PARENS) :
        \E o \in Standing(text, spans, PARENS[family][1], 0, k - 1) :
            \E c \in Standing(text, spans, PARENS[family][2], k + 1,
                              Len(text) - 1) :
                BalancedWithin(text, spans, PARENS[family][1],
                               PARENS[family][2], o + 1, c - 1)

\* the offsets at which the token occurs outside every string span and
\* strictly inside no matched pair of brackets
TopLevelOccurrences(text, spans, token) ==
    {k \in 0..(Len(text) - Len(token)) :
        /\ SubSeq(text, k + 1, k + Len(token)) = token
        /\ ~is_within_string(spans, k)
        /\ ~EnclosedByParens(text, spans, k)}

\* the offsets of a list are strictly ascending
StrictlyAscending(offsets) ==
    \A j \in 1..(Len(offsets) - 1) : offsets[j] < offsets[j + 1]

\* C21: every call of find_all_not_in_parens_or_strings(text, token) returns,
\* strictly ascending and without duplicates, exactly the offsets at which
\* token occurs outside every string span and strictly inside no matched
\* (), [] or {} pair.
C21_TopLevelOffsetsReturned ==
    pc \in {"returned", "raised"} =>
        /\ pc = "returned"
        /\ StrictlyAscending(result)
        /\ {result[j] : j \in 1..Len(result)}
               = TopLevelOccurrences(input, find_strings(input), loop.token)

-----------------------------------------------------------------------------
(* C22, C23: the cycle of the log types.                                   *)

\* the order log -> info -> warn -> error -> log
SuccessorType ==
    [log |-> "info", info |-> "warn", warn |-> "error", error |-> "log"]

PredecessorType ==
    [log |-> "error", info |-> "log", warn |-> "info", error |-> "warn"]

CycledTypes == {"log", "info", "warn", "error"}

\* after its leading whitespace the line starts with console.<t>, and the
\* word ends there
StartsWithConsole(line, t) ==
    /\ StartsWith(LStrip(line, Whitespace), "console." \o t)
    /\ ~CharIn(At(LStrip(line, Whitespace), Len("console." \o t)),
               WordCharacters)

\* the type the claim expects in place of t
TypeInDirection(t, direction) ==
    IF direction = "down" THEN SuccessorType[t] ELSE PredecessorType[t]

\* the direction of the call a step makes
LastDirection(directions) == directions[Len(directions)]

\* a step on a line that starts with console.<t>, t of the set, issues a
\* replacement that starts with the type next to t in the direction of the
\* call; a step on any other line issues none
CycleStepFollowsOrder ==
    /\ \A t \in CycledTypes :
           StartsWithConsole(input, t) =>
               /\ result'.replaced
               /\ StartsWithConsole(input',
                      TypeInDirection(t, LastDirection(session'.directions)))
    /\ (\A t \in CycledTypes : ~StartsWithConsole(input, t)) =>
           /\ ~result'.replaced
           /\ input' = input

\* four downs, or a down and then an up, have brought back the type of the
\* line the view held at first
CycleReturns ==
    session.directions \in {<<"down", "down", "down", "down">>,
                            <<"down", "up">>} =>
        \A t \in CycledTypes :
            StartsWithConsole(session.line, t) => StartsWithConsole(input, t)

\* C22: the log type cycles in the order log -> info -> warn -> error -> log:
\* on a line starting, after whitespace, with console.<t>, t of the set,
\* direction 'down' replaces t by its successor and any other direction by
\* its predecessor, so that four consecutive 'down' steps, or a 'down' and
\* then an 'up', return to the original type; on any other line no
\* replacement is issued.
C22_TypesCycleInOrder ==
    /\ [][CycleStepFollowsOrder]_vars
    /\ [](pc = "ready" => CycleReturns)

\* four downs on '  console.log(a)' have brought console.log back
C22_Witness ==
    /\ session.directions = <<"down", "down", "down", "down">>
    /\ session.line = "  console.log(a)"
    /\ input = "  console.log(a)"
    /\ result = [replaced |-> TRUE, new_line |-> "  console.log(a)"]

\* the line with the type of its leading console.<t> call, and nothing
\* else, replaced
WithLeadingType(line, t, next_type) ==
    Slice(line, 0, SkipSpaces(line, 0) + Len("console."))
        \o next_type
        \o SliceFrom(line, SkipSpaces(line, 0) + Len("console." \o t))

\* C23: cycle_log_types changes only the severity token of the leading
\* console.<type> call: every other character of the line, a later
\* 'console.<type>' in the arguments or in a second statement included, is
\* as it was.
C23_OnlyLeadingTypeChanges ==
    [][\A t \in CycledTypes :
           StartsWithConsole(input, t) =>
               input' = WithLeadingType(input, t,
                            TypeInDirection(t,
                                LastDirection(session'.directions)))]_vars

-----------------------------------------------------------------------------
(* C24: where clean_line cuts.                                             *)

\* the markers of a trailing comment and the separator of statements
CutMarkers == {"//", "#", ";"}

\* every comment marker and separator of the text stands in a string or
\* strictly inside a matched pair of brackets
MarkersEnclosed(text) ==
    \A marker \in CutMarkers :
        TopLevelOccurrences(text, find_strings(text), marker) = {}

\* the line stripped and unwrapped as clean_line does it, with nothing cut
Uncut(text) ==
    unwrap(Strip(unwrap(Strip(text, Whitespace), "([{"), Whitespace), "([{")

\* C24: clean_line truncates only at top-level positions: a comment marker
\* ('//' or '#') or a separator ';' inside a string literal or inside a
\* balanced bracket group never cuts the line, so a line whose markers and
\* separators are all enclosed comes back whole, stripped and unwrapped.
C24_EnclosedMarkersNeverCut ==
    (pc = "returned" /\ MarkersEnclosed(input)) => result = Uncut(input)

-----------------------------------------------------------------------------
(* C25: callbacks among the arguments.                                     *)

\* C25: a callback argument contributes no descriptors: of '<A>, <F>', <F> a
\* function expression or an arrow function with or without braces and with
\* whatever operators in its body, parse_params returns exactly the
\* descriptors of <A>.
C25_CallbackContributesNothing ==
    pc = "parse_params" =>
        \A arguments \in LeadingArguments : \A callback \in Callbacks :
            input = arguments \o ", " \o callback =>
                result = parse_params(arguments, flowtype_enabled)

-----------------------------------------------------------------------------
(* C26: the annotation mode of each fragment.                              *)

\* the names the claim keeps of a fragment: of an atom 'x: y' the x in
\* flow-type mode and the y otherwise, of an atom inside a group wrapped in
\* {} or [] the y in either mode
KeptNames(fragment, flow_type) ==
    CASE fragment = "a: b" -> IF flow_type THEN <<"a">> ELSE <<"b">>
      [] fragment = "{c: d}" -> <<"d">>
      [] fragment = "[e: f]" -> <<"f">>
      [] fragment = "{g: h}: T" -> <<"h">>
      [] fragment = "i" -> <<"i">>
      [] fragment = "{j: k, l: m}" -> <<"k", "m">>

RECURSIVE KeptOfAll(_, _)
\* the names kept of the fragments of a list, in order
KeptOfAll(fragments, flow_type) ==
    IF Len(fragments) = 0 THEN <<>>
    ELSE KeptNames(Head(fragments), flow_type)
         \o KeptOfAll(Tail(fragments), flow_type)

\* C26: the annotation mode is decided per fragment: of an atom 'x: y' with a
\* top-level colon parse_params keeps 'x' in flow-type mode and 'y' when the
\* atom comes from inside a fragment wrapped in {} or []; the destructuring
\* mode of one wrapped group does not change the mode of its siblings.
C26_ModePerFragment ==
    pc = "parse_params" =>
        \A fragments \in FragmentLists :
            input = Joined(fragments) =>
                result = [raised |-> FALSE,
                          params |-> Statements(KeptOfAll(fragments,
                                                          flowtype_enabled))]

-----------------------------------------------------------------------------
(* C27: the aliases of an import list.                                     *)

\* the alias of each member
AliasesOf(members) == [k \in 1..Len(members) |-> members[k][2]]

\* C27: an alias renames: for every atom '<name> as <alias>' that reaches the
\* base case of parse_params, such as the members of an import list
\* '{foo as bar}', the name of the descriptor is exactly <alias>.
C27_AliasRenames ==
    pc = "parse_params" =>
        \A members \in MemberLists :
            (/\ Distinct(AliasesOf(members))
             /\ input \in {Joined(AliasAtoms(members)),
                           "{" \o Joined(AliasAtoms(members)) \o "}"})
            => result = [raised |-> FALSE,
                         params |-> Statements(AliasesOf(members))]

-----------------------------------------------------------------------------
(* C28: the flag of every parse.                                           *)

\* the identifier and the descriptors of the statement when the parse of the
\* override receives the flag of the caller as the first parse does
flagged_expected(chosen, parsed, strat_simple_var, flowtype_enabled_) ==
    IF /\ chosen # strat_simple_var
       /\ strat_simple_var.applies
       /\ Len(parsed.params) = 1
    THEN [identifier_str |-> strat_simple_var.identifier_str,
          params |-> parse_params(strat_simple_var.param_str,
                                  flowtype_enabled_).params]
    ELSE [identifier_str |-> chosen.identifier_str, params |-> parsed.params]

\* the same, given the chosen strategy
flagged_chosen(chosen, strat_simple_var, flowtype_enabled_) ==
    flagged_expected(chosen, parse_params(chosen.param_str, flowtype_enabled_),
                     strat_simple_var, flowtype_enabled_)

\* the same, given the simple-variable strategy of the cleaned line
flagged_simple_var(text, strat_simple_var, take_inner_, flowtype_enabled_) ==
    flagged_chosen(
        chosen_strategy(value_strategy(text, take_inner_, strat_simple_var),
                        strat_simple_var, text, take_inner_),
        strat_simple_var, flowtype_enabled_)

\* the same, on the cleaned line
flagged_cleaned(text, take_inner_, flowtype_enabled_) ==
    flagged_simple_var(text, parse_strategy_simple_var(text, take_inner_),
                       take_inner_, flowtype_enabled_)

\* C28: every parse_params call that create_log_statement makes, the parse
\* again of the single-parameter override included, receives the
\* flowtype_enabled of the caller, so with the flag off no atom of the
\* statement is read in flow-type mode.
C28_EveryParseFlagged ==
    (pc = "create_log_statement" /\ ~result.raised) =>
        result = statement_of(
                     flagged_cleaned(clean_line(input), take_inner,
                                     flowtype_enabled),
                     alt_identifier, max_identifier_length)

-----------------------------------------------------------------------------
(* C29: the recursion of parse_params.                                     *)

\* C29: parse_params terminates by strictly decreasing length: each call it
\* makes of itself is on a text strictly shorter than its caller's, so the
\* depth of the recursion is bounded by the length of the outermost text,
\* whatever the ceiling of the scan loops.
C29_CallsShorten ==
    session.depth > 0 =>
        /\ Len(input) < Len(session.caller)
        /\ session.depth + Len(input) <= Len(session.first)

\* the second level of 'a, ({b: c}, b)': the group '{b: c}' of the list
\* '({b: c}, b)'
C29_Witness ==
    /\ session = [first |-> "a, ({b: c}, b)", caller |-> "({b: c}, b)",
                  depth |-> 2]
    /\ input = "{b: c}"
    /\ pc = "parse_params"

-----------------------------------------------------------------------------
(* C30: the brackets of what clean_param returns.                          *)

\* the text holds as many openers as closers of each family outside strings
EvenBrackets(text) ==
    \A family \in 1..Len(PARENS) :
        Depth(text, find_strings(text), PARENS[family][1], PARENS[family][2],
              0, Len(text) - 1) = 0

\* C30: clean_param repairs unbalanced fragments: for every input, with two
\* or more stray openers or closers too, the text it returns holds, for each
\* of the three bracket families, as many openers as closers outside string
\* literals.
C30_ReturnedBracketsEven ==
    pc = "returned" => EvenBrackets(result)

=============================================================================
